---- MODULE Spec2Model ----
(***************************************************************************)
(* Board object synchronisation of CollabBoard (the useBoard hook): each   *)
(* client keeps an in-memory object list, applies its own edits, sends     *)
(* broadcast events to its peers and writes to the board_objects table;    *)
(* inbound broadcast events and full loads from the table update the list. *)
(*                                                                         *)
(* A BoardObject is a record [id, x, y, z_index, created_by, updated_by].  *)
(* x and y stand for every field a partial update can carry; the other     *)
(* columns (width, height, rotation, type, properties) are handled by the  *)
(* same spread/merge code and are left out.                                *)
(***************************************************************************)
EXTENDS Integers, Sequences, FiniteSets, TLC

VARIABLES
    objects,            \* useState objects, per client: sequence of BoardObject
    loading,            \* useState loading, per client
    connected,          \* useState connected, per client
    zIndexCounter,      \* useRef zIndexCounter, per client
    hasBeenConnected,   \* useRef hasBeenConnected, per client
    lastDragBroadcast,  \* useRef lastDragBroadcast, per client (ms)
    chanState,          \* state of the client's realtime channel
    calls,              \* asynchronous calls in flight (awaited promises)
    net,                \* broadcast events in flight
    db,                 \* rows of board_objects for the board
    nextId,             \* next id the table assigns
    now,                \* Date.now() (ms)
    opsLeft,            \* operations the users may still start
    flapsLeft,          \* channel errors that may still happen, per client
    faultsLeft,         \* failures that may still happen (failed calls,
                        \* missing user, lost or repeated events)
    dbVersion,          \* history: number of write statements executed
    syncVer,            \* history: dbVersion read by the reload a client
                        \* applied last, -1 when another handler ran since
    last,               \* history: the inbound event the last step handled
    everSubscribed,     \* history: the client's channel was SUBSCRIBED before
    channelRef,         \* useRef channelRef, per client: 0 (null) or a channel
    cleanupTimerRef,    \* useRef cleanupTimerRef, per client: 0 or a timer id
    timers,             \* timeouts set and not yet fired or cleared, per client
    removedChannels,    \* history: channels passed to removeChannel, per client
    lifecycle,          \* per client: whether the channel effect is set up,
                        \* effect runs left, channels and timers created
    selectedIds,        \* useState selectedIds of the dragging client's canvas
    multiDragRef,       \* useRef multiDragRef of the dragging client's canvas
    gesture,            \* the pointer gesture in progress on that canvas
    gesturesLeft,       \* gestures the user may still start
    lastBroadcast,      \* usePresence: useRef lastBroadcast, per client (ms)
    presenceRef,        \* usePresence: useRef channelRef, 0 (null) or a channel
    presenceState,      \* state of the client's presence channel
    presenceLife,       \* usePresence: the channel effect is active, its
                        \* deferred cleanup is pending, or it is released
    cursors,            \* usePresence: useState cursors, per client
    cursorNet,          \* cursor events in flight
    offline,            \* ConnectionStatus: useState offline, per client
    boardId,            \* the boardId the hooks were last rendered with,
                        \* per client
    channelBoard,       \* the boards in the names of the channels that
                        \* useBoard and usePresence opened last, per client
    appliedSince,       \* history: the creates and deletes the client's
                        \* list has taken in since the client last issued
                        \* a read, kept while a read is in flight, per client
    walk,               \* the run of collectLockedFrameContents in progress
    ai                  \* the request the AI command route is handling

\* state of the useBoard hook, its channel and the table
syncVars == <<objects, loading, connected, zIndexCounter, hasBeenConnected,
              lastDragBroadcast, chanState, calls, net, db, nextId, now,
              opsLeft, flapsLeft, faultsLeft, dbVersion, syncVer, last>>

\* state of the channel effect and its deferred cleanup
lifeVars == <<channelRef, cleanupTimerRef, timers, removedChannels, lifecycle>>

\* state of the canvas's multi-drag tracking
dragVars == <<selectedIds, multiDragRef, gesture, gesturesLeft>>

\* state of the usePresence hook and of the ConnectionStatus component
presVars == <<lastBroadcast, presenceRef, presenceState, presenceLife,
              cursors, cursorNet, offline>>

\* the board the hooks are rendered for, the read history, the containment
\* walk and the AI command route
sideVars == <<boardId, channelBoard, appliedSince, walk, ai>>

vars == <<syncVars, everSubscribed, lifeVars, dragVars, presVars, sideVars>>

----------------------------------------------------------------------------
(* Bounds and inputs *)

Clients == {"a", "b"}

MaxOps == 1             \* operations started after the sessions are mounted
SteadyOps == 2          \* operations started after start-up has finished
MaxFlaps == 1           \* channel errors per client
MaxFaults == 1          \* failures in one behaviour

DRAG_THROTTLE_MS == 50
CURSOR_THROTTLE_MS == 50
TickMs == 25            \* granularity of the clock

Null == "null"          \* a null user

\* the last step handled no inbound event
NoEvent == [c |-> Null, event |-> "none", known |-> FALSE]

\* the data of a query result: null, or the rows returned
NoData == [present |-> FALSE, rows |-> <<>>]
Data(rows) == [present |-> TRUE, rows |-> rows]

\* partial updates a caller passes to updateObject
Patches == {[x |-> 1], [x |-> 0, y |-> 1]}

\* rows the table can hold when the sessions start
SeedRow == [id |-> 1, x |-> 0, y |-> 0, z_index |-> 1,
            created_by |-> "a", updated_by |-> "a"]

----------------------------------------------------------------------------
(* Pure helpers *)

Range(s) == {s[i] : i \in DOMAIN s}

Ids(s) == {s[i].id : i \in DOMAIN s}

\* number of entries of the list with the given id
CountId(s, id) == Cardinality({i \in DOMAIN s : s[i].id = id})

Max2(a, b) == IF a > b THEN a ELSE b

\* { ...obj, ...updates }
Spread(obj, updates) ==
    [k \in (DOMAIN obj) \cup (DOMAIN updates) |->
        IF k \in DOMAIN updates THEN updates[k] ELSE obj[k]]

\* const { id, ...updates } = payload
RestOf(payload) == [k \in (DOMAIN payload) \ {"id"} |-> payload[k]]

\* prev.map((obj) => (obj.id === id ? { ...obj, ...updates } : obj))
MapMerge(prev, id, updates) ==
    [i \in DOMAIN prev |->
        IF prev[i].id = id THEN Spread(prev[i], updates) ELSE prev[i]]

\* a filter with the comparison inverted
FilterOutInverted(prev, id) == SelectSeq(prev, LAMBDA o : o.id = id)

\* prev.filter((obj) => obj.id !== id)
FilterOut(prev, id) == SelectSeq(prev, LAMBDA o : o.id # id)

\* prev.some((o) => o.id === newObj.id) ? prev : [...prev, newObj]
AppendIfNew(prev, newObj) ==
    IF \E i \in DOMAIN prev : prev[i].id = newObj.id
    THEN prev ELSE Append(prev, newObj)

\* data.reduce((max, o) => Math.max(max, o.z_index ?? 0), 0)
MaxZ(data) ==
    IF data = <<>> THEN 0
    ELSE LET zs == {data[i].z_index : i \in DOMAIN data}
         IN  Max2(0, CHOOSE z \in zs : \A w \in zs : w <= z)

\* .select('*').eq('board_id', boardId).order('z_index', { ascending: true }):
\* every ordering of the rows by ascending z_index (ties in any order)
RECURSIVE Orderings(_)
Orderings(rows) ==
    IF rows = {} THEN {<<>>}
    ELSE LET least == {r \in rows : \A q \in rows : r.z_index <= q.z_index}
         IN  UNION {{<<r>> \o t : t \in Orderings(rows \ {r})} : r \in least}

\* a query that returns only the first row of the ordering
LoadResultsFirstRow(rows) ==
    {IF s = <<>> THEN s ELSE <<s[1]>> : s \in Orderings(rows)}

\* the rows of the table as one query result
LoadResults(rows) == Orderings(rows)

----------------------------------------------------------------------------
(* Handlers of inbound broadcast events: new value of the object list *)

\* .on('broadcast', { event: 'object-move' }, ...)
OnObjectMove(prev, payload) ==
    MapMerge(prev, payload.id, [x |-> payload.x, y |-> payload.y])

\* an object-create handler that appends without looking for the id
OnObjectCreateAlways(prev, payload) == Append(prev, payload)

\* an object-create handler that replaces an object it already holds
OnObjectCreateReplace(prev, payload) ==
    IF \E i \in DOMAIN prev : prev[i].id = payload.id
    THEN [i \in DOMAIN prev |->
             IF prev[i].id = payload.id THEN payload ELSE prev[i]]
    ELSE Append(prev, payload)

\* .on('broadcast', { event: 'object-create' }, ...): the list
OnObjectCreate(prev, payload) == AppendIfNew(prev, payload)

\* .on('broadcast', { event: 'object-create' }, ...): the z_index counter
BumpCounter(counter, newObj) ==
    IF newObj.z_index > counter THEN newObj.z_index ELSE counter

\* an object-update handler that inserts the payload when the id is unknown
OnObjectUpdateUpsert(prev, payload) ==
    IF payload.id \in Ids(prev)
    THEN MapMerge(prev, payload.id, RestOf(payload))
    ELSE Append(prev, payload)

\* .on('broadcast', { event: 'object-update' }, ...)
OnObjectUpdate(prev, payload) == MapMerge(prev, payload.id, RestOf(payload))

\* .on('broadcast', { event: 'object-delete' }, ...)
OnObjectDelete(prev, payload) == FilterOut(prev, payload.id)

\* the list after the handler registered for the event has run
ApplyEvent(prev, event, payload) ==
    CASE event = "object-move"   -> OnObjectMove(prev, payload)
      [] event = "object-create" -> OnObjectCreate(prev, payload)
      [] event = "object-update" -> OnObjectUpdate(prev, payload)
      [] event = "object-delete" -> OnObjectDelete(prev, payload)

----------------------------------------------------------------------------
(* The broadcast channel *)

\* client e has joined the channel client c's useBoard sends on: a channel
\* of the name `board-objects-${boardId}` that c's channel was opened with
Listens(e, c) ==
    /\ chanState[e] = "joined"
    /\ channelBoard[e].objects = channelBoard[c].objects

\* a send that does not look at channelRef
SendWithoutChannel(msgs, c, event, payload) ==
    msgs \cup {[to |-> d, event |-> event, payload |-> payload] :
                 d \in {e \in Clients \ {c} : Listens(e, c)}}

\* channelRef.current?.send({ type: 'broadcast', event, payload }) with
\* config broadcast.self = false: one copy per other client whose channel
\* is joined; the sender gets none.
Send(msgs, c, event, payload) ==
    IF channelRef[c] = 0 THEN msgs
    ELSE msgs \cup {[to |-> d, event |-> event, payload |-> payload] :
                      d \in {e \in Clients \ {c} : Listens(e, c)}}

----------------------------------------------------------------------------
(* Initial state: both sessions are mounted on the same board; the mount   *)
(* effects have run, so each client has issued its initial load and has    *)
(* created and subscribed its channel (channelRef.current is set).         *)

\* multiDragRef.current = null
NoSession == [active |-> FALSE, draggedId |-> 0, startPositions |-> <<>>]

\* no pointer gesture is in progress
NoGesture == [phase |-> "idle", id |-> 0, x |-> 0, y |-> 0, moves |-> 0,
              list |-> <<>>, sel |-> {}]

\* the channel effect has run once in each session: channel 1 is open and
\* held in channelRef, no cleanup is pending
HooksMounted(runs) ==
    /\ channelRef = [c \in Clients |-> 1]
    /\ cleanupTimerRef = [c \in Clients |-> 0]
    /\ timers = [c \in Clients |-> {}]
    /\ removedChannels = [c \in Clients |-> <<>>]
    /\ lifecycle = [c \in Clients |->
                      [active |-> TRUE, runsLeft |-> runs, opened |-> 1,
                       timersSet |-> 0]]

\* new Map(): no cursor has been received (a map is the set of its values,
\* each a CursorPosition keyed by its userId)
NoCursors == {}

\* the presence effect has run once in each session: the presence channel is
\* open and held in usePresence's channelRef, no cursor has been sent or
\* received; the browser is online
PresenceMounted ==
    /\ lastBroadcast = [c \in Clients |-> 0]
    /\ presenceRef = [c \in Clients |-> 1]
    /\ presenceState = [c \in Clients |-> "joining"]
    /\ presenceLife = [c \in Clients |-> "active"]
    /\ cursors = [c \in Clients |-> NoCursors]
    /\ cursorNet = {}
    /\ offline = [c \in Clients |-> FALSE]

\* the board both sessions are opened on
Board == 1

\* collectLockedFrameContents is not running
NoWalk == [phase |-> "idle", frame |-> 0, stack |-> <<>>, collected |-> <<>>,
           seed |-> <<>>, written |-> <<>>, steps |-> 0]

\* the AI command route is handling no request
NoRequest == [phase |-> "idle", complex |-> FALSE, iterations |-> 0,
              pending |-> <<>>, allResults |-> 0, hasError |-> FALSE,
              toolNames |-> {}, earlyReturn |-> FALSE, modelCalls |-> 0,
              failed |-> FALSE, askedState |-> FALSE]

\* both hooks were rendered with the same boardId and their channels were
\* opened with it; nothing has been applied to the lists; the route is idle
SessionsFresh ==
    /\ boardId = [c \in Clients |-> Board]
    /\ channelBoard = [c \in Clients |->
                          [objects |-> Board, presence |-> Board]]
    /\ appliedSince = [c \in Clients |-> {}]
    /\ walk = NoWalk
    /\ ai = NoRequest

\* the canvas with nothing selected and no drag in progress
CanvasIdle(gestures) ==
    /\ selectedIds = {}
    /\ multiDragRef = NoSession
    /\ gesture = NoGesture
    /\ gesturesLeft = gestures

\* the useBoard hooks right after mount
SyncStart(ops, flaps, faults) ==
    /\ objects = [c \in Clients |-> <<>>]
    /\ loading = [c \in Clients |-> TRUE]
    /\ connected = [c \in Clients |-> FALSE]
    /\ zIndexCounter = [c \in Clients |-> 0]
    /\ hasBeenConnected = [c \in Clients |-> FALSE]
    /\ lastDragBroadcast = [c \in Clients |-> 0]
    /\ chanState = [c \in Clients |-> "joining"]
    /\ calls = {[n |-> 0, c |-> c, fn |-> "loadObjects", stage |-> "sent"] :
                  c \in Clients}
    /\ net = {}
    /\ db \in {{}, {SeedRow}}
    /\ nextId = Cardinality(db) + 1
    /\ now = 2 * DRAG_THROTTLE_MS
    /\ opsLeft = ops
    /\ flapsLeft = [c \in Clients |-> flaps]
    /\ faultsLeft = faults
    /\ dbVersion = 0
    /\ syncVer = [c \in Clients |-> -1]
    /\ last = NoEvent
    /\ everSubscribed = [c \in Clients |-> FALSE]

Start(ops, flaps, faults) ==
    /\ SyncStart(ops, flaps, faults)
    /\ HooksMounted(0)
    /\ CanvasIdle(0)
    /\ PresenceMounted
    /\ SessionsFresh

Init == Start(MaxOps, MaxFlaps, MaxFaults)

\* Both sessions after start-up: the initial loads have been applied and
\* both channels are SUBSCRIBED; nothing is in flight.
Steady(ops, flaps, faults) ==
    /\ db \in {{}, {SeedRow}}
    /\ objects \in [Clients -> LoadResults(db)]
    /\ loading = [c \in Clients |-> FALSE]
    /\ connected = [c \in Clients |-> TRUE]
    /\ zIndexCounter = [c \in Clients |-> MaxZ(objects[c])]
    /\ hasBeenConnected = [c \in Clients |-> TRUE]
    /\ lastDragBroadcast = [c \in Clients |-> 0]
    /\ chanState = [c \in Clients |-> "joined"]
    /\ calls = {}
    /\ net = {}
    /\ nextId = Cardinality(db) + 1
    /\ now = 2 * DRAG_THROTTLE_MS
    /\ opsLeft = ops
    /\ flapsLeft = [c \in Clients |-> flaps]
    /\ faultsLeft = faults
    /\ dbVersion = 0
    /\ syncVer = [c \in Clients |-> -1]
    /\ last = NoEvent
    /\ everSubscribed = [c \in Clients |-> TRUE]
    /\ HooksMounted(0)
    /\ CanvasIdle(0)
    /\ PresenceMounted
    /\ SessionsFresh

\* replace one call in flight by its next stage
Advance(call, next) == (calls \ {call}) \cup {next}

\* the smallest call number the client has not in use among the calls cs
NextSlot(cs, c) ==
    CHOOSE k \in 1 .. (Cardinality(cs) + 1) :
        /\ \A call \in cs : call.c = c => call.n # k
        /\ \A j \in 1 .. (k - 1) : \E call \in cs : call.c = c /\ call.n = j

\* the smallest call number the client has not in use
FreeSlot(c) == NextSlot(calls, c)

\* the smallest number no pending reload of the client carries
ReloadSlot(c) ==
    CHOOSE k \in 0 .. Cardinality(calls) :
        /\ \A call \in calls : (call.c = c /\ call.fn = "reload") => call.n # k
        /\ \A j \in 0 .. (k - 1) :
              \E call \in calls : call.c = c /\ call.fn = "reload" /\ call.n = j

\* a step in which something fails
Fails == faultsLeft > 0 /\ faultsLeft' = faultsLeft - 1

\* the reads of client c that are in flight among the calls cs
Reads(cs, c) == {k \in cs : k.c = c /\ k.fn \in {"loadObjects", "reload"}}

\* the history after client c has taken an object-create or an object-delete
\* for the id into its list; it is kept while a read of c is in flight
Applied(history, c, event, id) ==
    IF event \in {"object-create", "object-delete"} /\ Reads(calls, c) # {}
    THEN [history EXCEPT ![c] = @ \cup {[event |-> event, id |-> id]}]
    ELSE history

\* the history after the response of a read of client c has been handled
ReadDone(history, call) ==
    IF Reads(calls \ {call}, call.c) = {}
    THEN [history EXCEPT ![call.c] = {}] ELSE history

----------------------------------------------------------------------------
(* Loads: the initial load and the reload on reconnect *)

\* the table answers a select issued by loadObjects or by the reload
LoadExec(call) ==
    /\ call \in calls
    /\ call.fn \in {"loadObjects", "reload"}
    /\ call.stage = "sent"
    /\ \/ /\ \E rows \in LoadResults(db) :
                calls' = Advance(call, [n |-> call.n, c |-> call.c,
                                        fn |-> call.fn, stage |-> "done",
                                        data |-> Data(rows), ver |-> dbVersion])
          /\ UNCHANGED faultsLeft
       \/ /\ calls' = Advance(call, [n |-> call.n, c |-> call.c,
                                     fn |-> call.fn, stage |-> "done",
                                     data |-> NoData, ver |-> dbVersion])
          /\ Fails
    /\ UNCHANGED <<everSubscribed, lifeVars, dragVars>>
    /\ UNCHANGED <<presVars, sideVars>>
    /\ last' = NoEvent
    /\ UNCHANGED <<objects, loading, connected, zIndexCounter,
                   hasBeenConnected, lastDragBroadcast, chanState, net, db,
                   nextId, now, opsLeft, flapsLeft, dbVersion, syncVer>>

\* a loadObjects that leaves loading only when the query returned data
LoadObjectsDoneOnData(call) ==
    /\ call \in calls
    /\ call.fn = "loadObjects"
    /\ call.stage = "done"
    /\ IF call.data.present
       THEN /\ objects' = [objects EXCEPT ![call.c] = call.data.rows]
            /\ zIndexCounter' = [zIndexCounter EXCEPT ![call.c] =
                                    MaxZ(call.data.rows)]
            /\ loading' = [loading EXCEPT ![call.c] = FALSE]
       ELSE UNCHANGED <<objects, zIndexCounter, loading>>
    /\ calls' = calls \ {call}
    /\ syncVer' = [syncVer EXCEPT ![call.c] = -1]
    /\ appliedSince' = ReadDone(appliedSince, call)
    /\ UNCHANGED <<everSubscribed, lifeVars, dragVars, presVars>>
    /\ UNCHANGED <<boardId, channelBoard, walk, ai>>
    /\ last' = NoEvent
    /\ UNCHANGED <<connected, hasBeenConnected, lastDragBroadcast, chanState,
                   net, db, nextId, now, opsLeft, flapsLeft, faultsLeft,
                   dbVersion>>

\* loadObjects resumes after its await
LoadObjectsDone(call) ==
    /\ call \in calls
    /\ call.fn = "loadObjects"
    /\ call.stage = "done"
    /\ IF call.data.present
       THEN /\ objects' = [objects EXCEPT ![call.c] = call.data.rows]
            /\ zIndexCounter' = [zIndexCounter EXCEPT ![call.c] =
                                    MaxZ(call.data.rows)]
       ELSE UNCHANGED <<objects, zIndexCounter>>
    /\ loading' = [loading EXCEPT ![call.c] = FALSE]
    /\ calls' = calls \ {call}
    /\ syncVer' = [syncVer EXCEPT ![call.c] = -1]
    /\ appliedSince' = ReadDone(appliedSince, call)
    /\ UNCHANGED <<everSubscribed, lifeVars, dragVars>>
    /\ UNCHANGED <<presVars, boardId, channelBoard, walk, ai>>
    /\ last' = NoEvent
    /\ UNCHANGED <<connected, hasBeenConnected, lastDragBroadcast, chanState,
                   net, db, nextId, now, opsLeft, flapsLeft, faultsLeft,
                   dbVersion>>

\* the counter after a reload has returned data
ReseedCounter(counter, data) == MaxZ(data)

\* a reload that keeps a non-empty local list instead of replacing it
ReloadObjectsKeepLocal(prev, data) == IF prev = <<>> THEN data ELSE prev

\* the list after a reload has returned data: setObjects(data)
ReloadObjects(prev, data) == data

\* the subscribe callback resumes after the reload's await
ReloadDone(call) ==
    /\ call \in calls
    /\ call.fn = "reload"
    /\ call.stage = "done"
    /\ IF call.data.present
       THEN /\ objects' = [objects EXCEPT ![call.c] =
                              ReloadObjects(@, call.data.rows)]
            /\ zIndexCounter' = [zIndexCounter EXCEPT ![call.c] =
                                    ReseedCounter(@, call.data.rows)]
            /\ syncVer' = [syncVer EXCEPT ![call.c] = call.ver]
       ELSE /\ UNCHANGED <<objects, zIndexCounter>>
            /\ syncVer' = [syncVer EXCEPT ![call.c] = -1]
    /\ hasBeenConnected' = [hasBeenConnected EXCEPT ![call.c] = TRUE]
    /\ calls' = calls \ {call}
    /\ appliedSince' = ReadDone(appliedSince, call)
    /\ UNCHANGED <<everSubscribed, lifeVars, dragVars>>
    /\ UNCHANGED <<presVars, boardId, channelBoard, walk, ai>>
    /\ last' = NoEvent
    /\ UNCHANGED <<loading, connected, lastDragBroadcast, chanState, net, db,
                   nextId, now, opsLeft, flapsLeft, faultsLeft, dbVersion>>

----------------------------------------------------------------------------
(* Channel status callbacks *)

\* a SUBSCRIBED callback that reloads on every SUBSCRIBED, the first included
SubscribedAlwaysReloads(c) ==
    /\ chanState[c] \in {"joining", "errored"}
    /\ chanState' = [chanState EXCEPT ![c] = "joined"]
    /\ connected' = [connected EXCEPT ![c] = TRUE]
    /\ calls' = calls \cup {[n |-> ReloadSlot(c), c |-> c,
                             fn |-> "reload", stage |-> "sent"]}
    /\ appliedSince' = [appliedSince EXCEPT ![c] = {}]
    /\ hasBeenConnected' = [hasBeenConnected EXCEPT ![c] = TRUE]
    /\ everSubscribed' = [everSubscribed EXCEPT ![c] = TRUE]
    /\ UNCHANGED <<presVars, boardId, channelBoard, walk, ai>>
    /\ last' = NoEvent
    /\ UNCHANGED <<objects, loading, zIndexCounter, lastDragBroadcast, net,
                   db, nextId, now, opsLeft, flapsLeft, faultsLeft,
                   dbVersion, syncVer, lifeVars, dragVars>>

\* channel.subscribe callback, status SUBSCRIBED
Subscribed(c) ==
    /\ chanState[c] \in {"joining", "errored"}
    /\ chanState' = [chanState EXCEPT ![c] = "joined"]
    /\ connected' = [connected EXCEPT ![c] = TRUE]
    /\ IF hasBeenConnected[c]
       THEN /\ calls' = calls \cup {[n |-> ReloadSlot(c), c |-> c,
                                     fn |-> "reload", stage |-> "sent"]}
            /\ appliedSince' = [appliedSince EXCEPT ![c] = {}]
            /\ UNCHANGED hasBeenConnected
       ELSE /\ hasBeenConnected' = [hasBeenConnected EXCEPT ![c] = TRUE]
            /\ UNCHANGED <<calls, appliedSince>>
    /\ everSubscribed' = [everSubscribed EXCEPT ![c] = TRUE]
    /\ UNCHANGED <<lifeVars, dragVars>>
    /\ UNCHANGED <<presVars, boardId, channelBoard, walk, ai>>
    /\ last' = NoEvent
    /\ UNCHANGED <<objects, loading, zIndexCounter, lastDragBroadcast, net,
                   db, nextId, now, opsLeft, flapsLeft, faultsLeft,
                   dbVersion, syncVer>>

\* channel.subscribe callback, status CHANNEL_ERROR, TIMED_OUT or CLOSED;
\* events in flight to the client are lost with the connection
ChannelError(c) ==
    /\ chanState[c] \in {"joining", "joined"}
    /\ flapsLeft[c] > 0
    /\ flapsLeft' = [flapsLeft EXCEPT ![c] = @ - 1]
    /\ chanState' = [chanState EXCEPT ![c] = "errored"]
    /\ connected' = [connected EXCEPT ![c] = FALSE]
    /\ net' = {m \in net : m.to # c}
    /\ UNCHANGED <<everSubscribed, lifeVars, dragVars>>
    /\ UNCHANGED <<presVars, sideVars>>
    /\ last' = NoEvent
    /\ UNCHANGED <<objects, loading, zIndexCounter, hasBeenConnected,
                   lastDragBroadcast, calls, db, nextId, now, opsLeft,
                   faultsLeft, dbVersion, syncVer>>

----------------------------------------------------------------------------
(* createObject *)

\* positions a caller passes to createObject
CreatePos == {[x |-> 0, y |-> 0]}

\* createObject is called: it awaits supabase.auth.getUser()
CreateObject(c, pos) ==
    /\ opsLeft > 0
    /\ opsLeft' = opsLeft - 1
    /\ calls' = calls \cup {[n |-> FreeSlot(c), c |-> c, fn |-> "createObject",
                             stage |-> "getUser", x |-> pos.x, y |-> pos.y]}
    /\ UNCHANGED <<everSubscribed, lifeVars, dragVars>>
    /\ UNCHANGED <<presVars, sideVars>>
    /\ last' = NoEvent
    /\ UNCHANGED <<objects, loading, connected, zIndexCounter,
                   hasBeenConnected, lastDragBroadcast, chanState, net, db,
                   nextId, now, flapsLeft, faultsLeft, dbVersion, syncVer>>

\* the row createObject builds once the user is known
NewObj(call, user, z) ==
    [x |-> call.x, y |-> call.y, z_index |-> z,
     created_by |-> user, updated_by |-> user]

\* getUser resolves: without a user createObject returns null; otherwise it
\* takes the next z_index and issues the insert
CreateGotUser(call, user) ==
    /\ call \in calls
    /\ call.fn = "createObject"
    /\ call.stage = "getUser"
    /\ user \in {call.c, Null}
    /\ IF user = Null
       THEN /\ calls' = calls \ {call}
            /\ Fails
            /\ UNCHANGED zIndexCounter
       ELSE LET z == zIndexCounter[call.c] + 1
            IN  /\ zIndexCounter' = [zIndexCounter EXCEPT ![call.c] = z]
                /\ calls' = Advance(call,
                      [n |-> call.n, c |-> call.c, fn |-> "createObject",
                       stage |-> "insertSent",
                       newObj |-> NewObj(call, user, z)])
                /\ UNCHANGED faultsLeft
    /\ UNCHANGED <<everSubscribed, lifeVars, dragVars>>
    /\ UNCHANGED <<presVars, sideVars>>
    /\ last' = NoEvent
    /\ UNCHANGED <<objects, loading, connected, hasBeenConnected,
                   lastDragBroadcast, chanState, net, db, nextId, now, opsLeft,
                   flapsLeft, dbVersion, syncVer>>

\* an insert whose id is taken from the row's z_index instead of being
\* assigned by the table
InsertExecClientId(call) ==
    /\ call \in calls
    /\ call.fn = "createObject"
    /\ call.stage = "insertSent"
    /\ LET row == Spread(call.newObj, [id |-> call.newObj.z_index])
       IN  /\ db' = db \cup {row}
           /\ nextId' = nextId + 1
           /\ dbVersion' = dbVersion + 1
           /\ calls' = Advance(call,
                 [n |-> call.n, c |-> call.c, fn |-> "createObject",
                  stage |-> "insertDone", newObj |-> call.newObj,
                  data |-> Data(<<row>>), error |-> FALSE])
    /\ UNCHANGED <<everSubscribed, lifeVars, dragVars, presVars>>
    /\ UNCHANGED sideVars
    /\ last' = NoEvent
    /\ UNCHANGED <<objects, loading, connected, zIndexCounter,
                   hasBeenConnected, lastDragBroadcast, chanState, net, now,
                   opsLeft, flapsLeft, faultsLeft, syncVer>>

\* the table executes .insert(newObj).select().single(): it assigns the id
\* and returns the row, or it fails and returns an error
InsertExec(call) ==
    /\ call \in calls
    /\ call.fn = "createObject"
    /\ call.stage = "insertSent"
    /\ \/ LET row == Spread(call.newObj, [id |-> nextId])
          IN  /\ db' = db \cup {row}
              /\ nextId' = nextId + 1
              /\ dbVersion' = dbVersion + 1
              /\ calls' = Advance(call,
                    [n |-> call.n, c |-> call.c, fn |-> "createObject",
                     stage |-> "insertDone", newObj |-> call.newObj,
                     data |-> Data(<<row>>), error |-> FALSE])
              /\ UNCHANGED faultsLeft
       \/ /\ calls' = Advance(call,
                    [n |-> call.n, c |-> call.c, fn |-> "createObject",
                     stage |-> "insertDone", newObj |-> call.newObj,
                     data |-> NoData, error |-> TRUE])
          /\ Fails
          /\ UNCHANGED <<db, nextId, dbVersion>>
    /\ UNCHANGED <<everSubscribed, lifeVars, dragVars>>
    /\ UNCHANGED <<presVars, sideVars>>
    /\ last' = NoEvent
    /\ UNCHANGED <<objects, loading, connected, zIndexCounter,
                   hasBeenConnected, lastDragBroadcast, chanState, net, now,
                   opsLeft, flapsLeft, syncVer>>

\* setObjects((prev) => [...prev, created])
AppendCreated(prev, created) == Append(prev, created)

\* the insert resolves: on success createObject appends the returned row and
\* broadcasts it; on failure it only logs
CreateDone(call) ==
    /\ call \in calls
    /\ call.fn = "createObject"
    /\ call.stage = "insertDone"
    /\ IF call.data.present /\ ~call.error
       THEN /\ objects' = [objects EXCEPT ![call.c] =
                              AppendCreated(@, call.data.rows[1])]
            /\ net' = Send(net, call.c, "object-create", call.data.rows[1])
            /\ appliedSince' = Applied(appliedSince, call.c, "object-create",
                                       call.data.rows[1].id)
       ELSE UNCHANGED <<objects, net, appliedSince>>
    /\ calls' = calls \ {call}
    /\ syncVer' = [syncVer EXCEPT ![call.c] = -1]
    /\ UNCHANGED <<everSubscribed, lifeVars, dragVars>>
    /\ UNCHANGED <<presVars, boardId, channelBoard, walk, ai>>
    /\ last' = NoEvent
    /\ UNCHANGED <<loading, connected, zIndexCounter, hasBeenConnected,
                   lastDragBroadcast, chanState, db, nextId, now, opsLeft,
                   flapsLeft, faultsLeft, dbVersion>>

----------------------------------------------------------------------------
(* updateObject *)

\* ids that have been assigned so far
KnownIds == 1 .. (nextId - 1)

\* updateObject is called: it awaits supabase.auth.getUser()
UpdateObject(c, id, updates) ==
    /\ opsLeft > 0
    /\ id \in KnownIds
    /\ opsLeft' = opsLeft - 1
    /\ calls' = calls \cup {[n |-> FreeSlot(c), c |-> c, fn |-> "updateObject",
                             stage |-> "getUser", id |-> id,
                             updates |-> updates]}
    /\ UNCHANGED <<everSubscribed, lifeVars, dragVars>>
    /\ UNCHANGED <<presVars, sideVars>>
    /\ last' = NoEvent
    /\ UNCHANGED <<objects, loading, connected, zIndexCounter,
                   hasBeenConnected, lastDragBroadcast, chanState, net, db,
                   nextId, now, flapsLeft, faultsLeft, dbVersion, syncVer>>

\* payload of the object-update broadcast: { id, ...updates }
UpdatePayload(id, updates) == Spread([id |-> id], updates)

\* columns written by .update({ ...updates, updated_by: user?.id });
\* an undefined updated_by is not sent
UpdateColumns(updates, user) ==
    IF user = Null THEN updates ELSE Spread(updates, [updated_by |-> user])

\* getUser resolves: updateObject merges into the local list, broadcasts the
\* patch and issues the update
UpdateGotUser(call, user) ==
    /\ call \in calls
    /\ call.fn = "updateObject"
    /\ call.stage = "getUser"
    /\ user \in {call.c, Null}
    /\ IF user = Null THEN Fails ELSE UNCHANGED faultsLeft
    /\ objects' = [objects EXCEPT ![call.c] =
                      MapMerge(@, call.id, call.updates)]
    /\ net' = Send(net, call.c, "object-update",
                   UpdatePayload(call.id, call.updates))
    /\ calls' = Advance(call,
          [n |-> call.n, c |-> call.c, fn |-> "updateObject",
           stage |-> "updateSent", id |-> call.id,
           columns |-> UpdateColumns(call.updates, user)])
    /\ syncVer' = [syncVer EXCEPT ![call.c] = -1]
    /\ UNCHANGED <<everSubscribed, lifeVars, dragVars>>
    /\ UNCHANGED <<presVars, sideVars>>
    /\ last' = NoEvent
    /\ UNCHANGED <<loading, connected, zIndexCounter, hasBeenConnected,
                   lastDragBroadcast, chanState, db, nextId, now, opsLeft,
                   flapsLeft, dbVersion>>

\* an update in which the columns already stored win over the new ones
DbUpdateKeepsStored(rows, id, columns) ==
    {IF r.id = id THEN Spread(columns, r) ELSE r : r \in rows}

\* rows after .update(columns).eq('id', id)
DbUpdate(rows, id, columns) ==
    {IF r.id = id THEN Spread(r, columns) ELSE r : r \in rows}

\* an updateObject that issues its update again when it has failed
UpdateExecRetries(call) ==
    /\ call \in calls
    /\ call.fn = "updateObject"
    /\ call.stage = "updateSent"
    /\ \/ /\ db' = DbUpdate(db, call.id, call.columns)
          /\ dbVersion' = IF db' = db THEN dbVersion ELSE dbVersion + 1
          /\ calls' = calls \ {call}
          /\ UNCHANGED faultsLeft
       \/ /\ Fails
          /\ UNCHANGED <<db, dbVersion, calls>>
    /\ UNCHANGED <<everSubscribed, lifeVars, dragVars, presVars>>
    /\ UNCHANGED sideVars
    /\ last' = NoEvent
    /\ UNCHANGED <<objects, loading, connected, zIndexCounter,
                   hasBeenConnected, lastDragBroadcast, chanState, net,
                   nextId, now, opsLeft, flapsLeft, syncVer>>

\* the table executes the update, or fails; updateObject then only logs
UpdateExec(call) ==
    /\ call \in calls
    /\ call.fn = "updateObject"
    /\ call.stage = "updateSent"
    /\ \/ /\ db' = DbUpdate(db, call.id, call.columns)
          /\ dbVersion' = IF db' = db THEN dbVersion ELSE dbVersion + 1
          /\ UNCHANGED faultsLeft
       \/ /\ Fails
          /\ UNCHANGED <<db, dbVersion>>
    /\ calls' = calls \ {call}
    /\ UNCHANGED <<everSubscribed, lifeVars, dragVars>>
    /\ UNCHANGED <<presVars, sideVars>>
    /\ last' = NoEvent
    /\ UNCHANGED <<objects, loading, connected, zIndexCounter,
                   hasBeenConnected, lastDragBroadcast, chanState, net,
                   nextId, now, opsLeft, flapsLeft, syncVer>>

----------------------------------------------------------------------------
(* deleteObject *)

\* deleteObject is called: it removes the object from the local list,
\* broadcasts the delete and issues the delete statement
DeleteObject(c, id) ==
    /\ opsLeft > 0
    /\ id \in KnownIds
    /\ opsLeft' = opsLeft - 1
    /\ objects' = [objects EXCEPT ![c] = FilterOut(@, id)]
    /\ net' = Send(net, c, "object-delete", [id |-> id])
    /\ calls' = calls \cup {[n |-> FreeSlot(c), c |-> c, fn |-> "deleteObject",
                             stage |-> "deleteSent", id |-> id]}
    /\ syncVer' = [syncVer EXCEPT ![c] = -1]
    /\ UNCHANGED <<everSubscribed, lifeVars, dragVars>>
    /\ UNCHANGED <<presVars, sideVars>>
    /\ last' = NoEvent
    /\ UNCHANGED <<loading, connected, zIndexCounter, hasBeenConnected,
                   lastDragBroadcast, chanState, db, nextId, now, flapsLeft,
                   faultsLeft, dbVersion>>

\* rows after .delete().eq('id', id)
DbDelete(rows, id) == {r \in rows : r.id # id}

\* the table executes the delete, or fails; deleteObject then only logs
DeleteExec(call) ==
    /\ call \in calls
    /\ call.fn = "deleteObject"
    /\ call.stage = "deleteSent"
    /\ \/ /\ db' = DbDelete(db, call.id)
          /\ dbVersion' = IF db' = db THEN dbVersion ELSE dbVersion + 1
          /\ UNCHANGED faultsLeft
       \/ /\ Fails
          /\ UNCHANGED <<db, dbVersion>>
    /\ calls' = calls \ {call}
    /\ UNCHANGED <<everSubscribed, lifeVars, dragVars>>
    /\ UNCHANGED <<presVars, sideVars>>
    /\ last' = NoEvent
    /\ UNCHANGED <<objects, loading, connected, zIndexCounter,
                   hasBeenConnected, lastDragBroadcast, chanState, net,
                   nextId, now, opsLeft, flapsLeft, syncVer>>

----------------------------------------------------------------------------
(* broadcastObjectMove and the clock *)

\* positions a drag reports
MovePos == {[x |-> 1, y |-> 1]}

\* now - lastDragBroadcast.current < DRAG_THROTTLE_MS
Throttled(c) == now - lastDragBroadcast[c] < DRAG_THROTTLE_MS

\* the cursor throttle with a window of one clock step
CursorThrottledShort(c) == now - lastBroadcast[c] < TickMs

\* now - lastBroadcast.current < CURSOR_THROTTLE_MS
CursorThrottled(c) == now - lastBroadcast[c] < CURSOR_THROTTLE_MS

\* a broadcastObjectMove that also writes the position to the table
BroadcastObjectMovePersists(c, id, pos) ==
    /\ opsLeft > 0
    /\ id \in KnownIds
    /\ opsLeft' = opsLeft - 1
    /\ IF Throttled(c)
       THEN UNCHANGED <<lastDragBroadcast, net, db, dbVersion>>
       ELSE /\ lastDragBroadcast' = [lastDragBroadcast EXCEPT ![c] = now]
            /\ net' = Send(net, c, "object-move",
                           [id |-> id, x |-> pos.x, y |-> pos.y])
            /\ db' = {IF r.id = id THEN [r EXCEPT !.x = pos.x, !.y = pos.y]
                      ELSE r : r \in db}
            /\ dbVersion' = dbVersion + 1
    /\ UNCHANGED <<everSubscribed, lifeVars, dragVars, presVars>>
    /\ UNCHANGED sideVars
    /\ last' = NoEvent
    /\ UNCHANGED <<objects, loading, connected, zIndexCounter,
                   hasBeenConnected, chanState, calls, nextId, now,
                   flapsLeft, faultsLeft, syncVer>>

\* broadcastObjectMove(id, x, y): dropped inside the throttle window,
\* otherwise sent as an object-move event; nothing is written to the table
BroadcastObjectMove(c, id, pos) ==
    /\ opsLeft > 0
    /\ id \in KnownIds
    /\ opsLeft' = opsLeft - 1
    /\ IF Throttled(c)
       THEN UNCHANGED <<lastDragBroadcast, net>>
       ELSE /\ lastDragBroadcast' = [lastDragBroadcast EXCEPT ![c] = now]
            /\ net' = Send(net, c, "object-move",
                           [id |-> id, x |-> pos.x, y |-> pos.y])
    /\ UNCHANGED <<everSubscribed, lifeVars, dragVars>>
    /\ UNCHANGED <<presVars, sideVars>>
    /\ last' = NoEvent
    /\ UNCHANGED <<objects, loading, connected, zIndexCounter,
                   hasBeenConnected, chanState, calls, db, nextId, now,
                   flapsLeft, faultsLeft, dbVersion, syncVer>>

\* time passes; only followed while some client is inside its throttle
\* window, the only place where the clock is read
Tick ==
    /\ \E c \in Clients : Throttled(c) \/ CursorThrottled(c)
    /\ now' = now + TickMs
    /\ UNCHANGED <<everSubscribed, lifeVars, dragVars>>
    /\ UNCHANGED <<presVars, sideVars>>
    /\ last' = NoEvent
    /\ UNCHANGED <<objects, loading, connected, zIndexCounter,
                   hasBeenConnected, lastDragBroadcast, chanState, calls,
                   net, db, nextId, opsLeft, flapsLeft, faultsLeft,
                   dbVersion, syncVer>>

----------------------------------------------------------------------------
(* The AI command route and applyAiResults *)

\* tool calls a command can lead to
AiTools ==
    {[name |-> "create_sticky_note"]}
    \cup {[name |-> "move_object", id |-> id, x |-> 1, y |-> 0] :
            id \in KnownIds}
    \cup {[name |-> "delete_object", id |-> id] : id \in KnownIds}

\* the route's z_index counter, seeded from the rows it loaded
RouteZIndex(rows) ==
    IF rows = {} THEN 0
    ELSE Max2(0, CHOOSE z \in {r.z_index : r \in rows} :
                    \A r \in rows : r.z_index <= z)

\* executeTool: the rows after the tool has run
ToolRows(rows, tool, userId, id) ==
    CASE tool.name = "create_sticky_note" ->
            rows \cup {[id |-> id, x |-> 0, y |-> 0,
                        z_index |-> RouteZIndex(rows) + 1,
                        created_by |-> userId, updated_by |-> userId]}
      [] tool.name = "move_object" ->
            DbUpdate(rows, tool.id,
                     [x |-> tool.x, y |-> tool.y, updated_by |-> userId])
      [] tool.name = "delete_object" -> DbDelete(rows, tool.id)

\* executeTool: the results it contributes (none when the row is missing)
ToolResults(rows, tool, userId, id) ==
    CASE tool.name = "create_sticky_note" ->
            <<[action |-> "create",
               object |-> CHOOSE r \in ToolRows(rows, tool, userId, id) :
                             r.id = id]>>
      [] tool.name = "move_object" ->
            IF \E r \in rows : r.id = tool.id
            THEN <<[action |-> "update",
                    object |-> CHOOSE r \in ToolRows(rows, tool, userId, id) :
                                  r.id = tool.id]>>
            ELSE <<>>
      [] tool.name = "delete_object" ->
            IF \E r \in rows : r.id = tool.id
            THEN <<[action |-> "delete",
                    object |-> CHOOSE r \in rows : r.id = tool.id]>>
            ELSE <<>>

\* a command is sent to the route, which runs one tool against the table;
\* the response with the results is then in flight to the client
AiCommand(c, tool) ==
    /\ opsLeft > 0
    /\ tool \in AiTools
    /\ opsLeft' = opsLeft - 1
    /\ db' = ToolRows(db, tool, c, nextId)
    /\ nextId' = IF tool.name = "create_sticky_note" THEN nextId + 1 ELSE nextId
    /\ dbVersion' = IF db' = db THEN dbVersion ELSE dbVersion + 1
    /\ calls' = calls \cup {[n |-> FreeSlot(c), c |-> c, fn |-> "aiCommand",
                             stage |-> "done",
                             results |-> ToolResults(db, tool, c, nextId)]}
    /\ UNCHANGED <<everSubscribed, lifeVars, dragVars>>
    /\ UNCHANGED <<presVars, sideVars>>
    /\ last' = NoEvent
    /\ UNCHANGED <<objects, loading, connected, zIndexCounter,
                   hasBeenConnected, lastDragBroadcast, chanState, net, now,
                   flapsLeft, faultsLeft, syncVer>>

\* applyAiResults: the object list after the results
RECURSIVE AiObjects(_, _)
AiObjects(prev, results) ==
    IF results = <<>> THEN prev
    ELSE LET r == Head(results)
             next == CASE r.action = "create" -> AppendIfNew(prev, r.object)
                       [] r.action = "update" ->
                            MapMerge(prev, r.object.id, r.object)
                       [] r.action = "delete" -> FilterOut(prev, r.object.id)
         IN  AiObjects(next, Tail(results))

\* applyAiResults: the z_index counter after the results
RECURSIVE AiCounter(_, _)
AiCounter(counter, results) ==
    IF results = <<>> THEN counter
    ELSE LET r == Head(results)
         IN  AiCounter(IF r.action = "create"
                       THEN BumpCounter(counter, r.object) ELSE counter,
                       Tail(results))

\* applyAiResults: the events it broadcasts
RECURSIVE AiSends(_, _, _)
AiSends(msgs, c, results) ==
    IF results = <<>> THEN msgs
    ELSE LET r == Head(results)
             next == CASE r.action = "create" ->
                            Send(msgs, c, "object-create", r.object)
                       [] r.action = "update" ->
                            Send(msgs, c, "object-update", r.object)
                       [] r.action = "delete" ->
                            Send(msgs, c, "object-delete", [id |-> r.object.id])
         IN  AiSends(next, c, Tail(results))

\* the route's response arrives and the client calls applyAiResults
ApplyAiResults(call) ==
    /\ call \in calls
    /\ call.fn = "aiCommand"
    /\ call.stage = "done"
    /\ objects' = [objects EXCEPT ![call.c] = AiObjects(@, call.results)]
    /\ zIndexCounter' = [zIndexCounter EXCEPT ![call.c] =
                            AiCounter(@, call.results)]
    /\ net' = AiSends(net, call.c, call.results)
    /\ calls' = calls \ {call}
    /\ syncVer' = [syncVer EXCEPT ![call.c] = -1]
    /\ UNCHANGED <<everSubscribed, lifeVars, dragVars>>
    /\ UNCHANGED <<presVars, sideVars>>
    /\ last' = NoEvent
    /\ UNCHANGED <<loading, connected, hasBeenConnected, lastDragBroadcast,
                   chanState, db, nextId, now, opsLeft, flapsLeft,
                   faultsLeft, dbVersion>>

----------------------------------------------------------------------------
(* Delivery of broadcast events *)

\* the effect of an inbound event on its receiver
Receive(m) ==
    /\ chanState[m.to] = "joined"
    /\ objects' = [objects EXCEPT ![m.to] = ApplyEvent(@, m.event, m.payload)]
    /\ zIndexCounter' = [zIndexCounter EXCEPT ![m.to] =
          IF m.event = "object-create" THEN BumpCounter(@, m.payload) ELSE @]
    /\ syncVer' = [syncVer EXCEPT ![m.to] = -1]
    /\ appliedSince' = Applied(appliedSince, m.to, m.event, m.payload.id)
    /\ UNCHANGED <<everSubscribed, lifeVars, dragVars>>
    /\ UNCHANGED <<presVars, boardId, channelBoard, walk, ai>>
    /\ last' = [c |-> m.to, event |-> m.event,
                known |-> m.payload.id \in Ids(objects[m.to])]
    /\ UNCHANGED <<loading, connected, hasBeenConnected, lastDragBroadcast,
                   chanState, calls, db, nextId, now, opsLeft, flapsLeft,
                   dbVersion>>

\* an event is delivered to its receiver
Deliver(m) ==
    /\ m \in net
    /\ Receive(m)
    /\ net' = net \ {m}
    /\ UNCHANGED faultsLeft

\* an event is delivered and will be delivered again (at-least-once)
DeliverDuplicate(m) ==
    /\ m \in net
    /\ Receive(m)
    /\ net' = net
    /\ Fails

\* an event is lost (best-effort broadcast)
Drop(m) ==
    /\ m \in net
    /\ net' = net \ {m}
    /\ Fails
    /\ UNCHANGED <<everSubscribed, lifeVars, dragVars>>
    /\ UNCHANGED <<presVars, sideVars>>
    /\ last' = NoEvent
    /\ UNCHANGED <<objects, loading, connected, zIndexCounter,
                   hasBeenConnected, lastDragBroadcast, chanState, calls, db,
                   nextId, now, opsLeft, flapsLeft, dbVersion, syncVer>>

----------------------------------------------------------------------------

Next ==
    \/ \E call \in calls : LoadExec(call)
    \/ \E call \in calls : LoadObjectsDone(call)
    \/ \E call \in calls : ReloadDone(call)
    \/ \E c \in Clients : Subscribed(c)
    \/ \E c \in Clients : ChannelError(c)
    \/ \E c \in Clients, pos \in CreatePos : CreateObject(c, pos)
    \/ \E call \in calls, user \in Clients \cup {Null} :
          CreateGotUser(call, user)
    \/ \E call \in calls : InsertExec(call)
    \/ \E call \in calls : CreateDone(call)
    \/ \E c \in Clients, id \in KnownIds, updates \in Patches :
          UpdateObject(c, id, updates)
    \/ \E call \in calls, user \in Clients \cup {Null} :
          UpdateGotUser(call, user)
    \/ \E call \in calls : UpdateExec(call)
    \/ \E c \in Clients, id \in KnownIds : DeleteObject(c, id)
    \/ \E call \in calls : DeleteExec(call)
    \/ \E c \in Clients, id \in KnownIds, pos \in MovePos :
          BroadcastObjectMove(c, id, pos)
    \/ Tick
    \/ \E c \in Clients, tool \in AiTools : AiCommand(c, tool)
    \/ \E call \in calls : ApplyAiResults(call)
    \/ \E m \in net : Deliver(m)
    \/ \E m \in net : DeliverDuplicate(m)
    \/ \E m \in net : Drop(m)

Spec == Init /\ [][Next]_vars

----------------------------------------------------------------------------
(* The sessions after start-up: edits, broadcasts, writes, channel errors  *)
(* and reloads on reconnect.                                               *)

InitSteady == Steady(SteadyOps, MaxFlaps, MaxFaults)

NextSync ==
    \/ \E call \in calls : LoadExec(call)
    \/ \E call \in calls : ReloadDone(call)
    \/ \E c \in Clients : Subscribed(c)
    \/ \E c \in Clients : ChannelError(c)
    \/ \E c \in Clients, pos \in CreatePos : CreateObject(c, pos)
    \/ \E call \in calls, user \in Clients \cup {Null} :
          CreateGotUser(call, user)
    \/ \E call \in calls : InsertExec(call)
    \/ \E call \in calls : CreateDone(call)
    \/ \E c \in Clients, id \in KnownIds, updates \in Patches :
          UpdateObject(c, id, updates)
    \/ \E call \in calls, user \in Clients \cup {Null} :
          UpdateGotUser(call, user)
    \/ \E call \in calls : UpdateExec(call)
    \/ \E c \in Clients, id \in KnownIds : DeleteObject(c, id)
    \/ \E call \in calls : DeleteExec(call)
    \/ \E m \in net : Deliver(m)
    \/ \E m \in net : DeliverDuplicate(m)
    \/ \E m \in net : Drop(m)

SpecSync == InitSteady /\ [][NextSync]_vars

----------------------------------------------------------------------------
(* Two concurrent edits of one object: both clients have called            *)
(* updateObject for the seed row with different values of x, and neither   *)
(* call has resolved anything yet.                                         *)

\* the value of x each client writes
ConflictPatch == [a |-> [x |-> 1], b |-> [x |-> 2]]

ConflictCalls ==
    {[n |-> 1, c |-> c, fn |-> "updateObject", stage |-> "getUser",
      id |-> SeedRow.id, updates |-> ConflictPatch[c]] : c \in Clients}

InitConflict ==
    /\ db = {SeedRow}
    /\ objects = [c \in Clients |-> <<SeedRow>>]
    /\ loading = [c \in Clients |-> FALSE]
    /\ connected = [c \in Clients |-> TRUE]
    /\ zIndexCounter = [c \in Clients |-> MaxZ(objects[c])]
    /\ hasBeenConnected = [c \in Clients |-> TRUE]
    /\ lastDragBroadcast = [c \in Clients |-> 0]
    /\ chanState = [c \in Clients |-> "joined"]
    /\ calls = ConflictCalls
    /\ net = {}
    /\ nextId = Cardinality(db) + 1
    /\ now = 2 * DRAG_THROTTLE_MS
    /\ opsLeft = 0
    /\ flapsLeft = [c \in Clients |-> MaxFlaps]
    /\ faultsLeft = MaxFaults
    /\ dbVersion = 0
    /\ syncVer = [c \in Clients |-> -1]
    /\ last = NoEvent
    /\ everSubscribed = [c \in Clients |-> TRUE]
    /\ HooksMounted(0)
    /\ CanvasIdle(0)
    /\ PresenceMounted
    /\ SessionsFresh

NextConflict ==
    \/ \E call \in calls, user \in Clients \cup {Null} :
          UpdateGotUser(call, user)
    \/ \E call \in calls : UpdateExec(call)
    \/ \E m \in net : Deliver(m)
    \/ \E m \in net : DeliverDuplicate(m)
    \/ \E m \in net : Drop(m)
    \/ \E c \in Clients : ChannelError(c)
    \/ \E c \in Clients : Subscribed(c)
    \/ \E call \in calls : LoadExec(call)
    \/ \E call \in calls : ReloadDone(call)

SpecConflict == InitConflict /\ [][NextConflict]_vars

----------------------------------------------------------------------------
(* The channel effect: deferred cleanup, cancellation and reuse *)

MaxRuns == 2            \* effect re-runs per client

\* what the hook holds besides the channel and its connection
hookVars == <<objects, loading, zIndexCounter, hasBeenConnected,
              lastDragBroadcast, calls, db, nextId, now, opsLeft, flapsLeft,
              faultsLeft, dbVersion, syncVer>>

\* the effect body without the clearTimeout of the pending cleanup
EffectRunKeepsTimer(c) ==
    /\ ~lifecycle[c].active
    /\ lifecycle[c].runsLeft > 0
    /\ cleanupTimerRef' = [cleanupTimerRef EXCEPT ![c] = 0]
    /\ timers' = timers
    /\ IF channelRef[c] # 0
       THEN /\ lifecycle' = [lifecycle EXCEPT ![c].active = TRUE,
                                              ![c].runsLeft = @ - 1]
            /\ UNCHANGED <<channelRef, chanState, channelBoard>>
       ELSE /\ lifecycle' = [lifecycle EXCEPT ![c].active = TRUE,
                                              ![c].runsLeft = @ - 1,
                                              ![c].opened = @ + 1]
            /\ channelRef' = [channelRef EXCEPT ![c] = lifecycle[c].opened + 1]
            /\ chanState' = [chanState EXCEPT ![c] = "joining"]
            /\ channelBoard' = [channelBoard EXCEPT ![c].objects = boardId[c]]
    /\ UNCHANGED <<removedChannels, everSubscribed, dragVars>>
    /\ UNCHANGED <<presVars, boardId, appliedSince, walk, ai>>
    /\ last' = NoEvent
    /\ UNCHANGED <<connected, net, hookVars>>

\* the effect body runs again: a pending cleanup timer is cancelled; an
\* existing channel is reused, otherwise a channel is created and subscribed
EffectRun(c) ==
    /\ ~lifecycle[c].active
    /\ lifecycle[c].runsLeft > 0
    /\ cleanupTimerRef' = [cleanupTimerRef EXCEPT ![c] = 0]
    /\ timers' = [timers EXCEPT ![c] = @ \ {cleanupTimerRef[c]}]
    /\ IF channelRef[c] # 0
       THEN /\ lifecycle' = [lifecycle EXCEPT ![c].active = TRUE,
                                              ![c].runsLeft = @ - 1]
            /\ UNCHANGED <<channelRef, chanState, channelBoard>>
       ELSE /\ lifecycle' = [lifecycle EXCEPT ![c].active = TRUE,
                                              ![c].runsLeft = @ - 1,
                                              ![c].opened = @ + 1]
            /\ channelRef' = [channelRef EXCEPT ![c] = lifecycle[c].opened + 1]
            /\ chanState' = [chanState EXCEPT ![c] = "joining"]
            /\ channelBoard' = [channelBoard EXCEPT ![c].objects = boardId[c]]
    /\ UNCHANGED <<removedChannels, everSubscribed, dragVars>>
    /\ UNCHANGED <<presVars, boardId, appliedSince, walk, ai>>
    /\ last' = NoEvent
    /\ UNCHANGED <<connected, net, hookVars>>

\* the effect cleanup: it only arms a 200 ms timer
Cleanup(c) ==
    /\ lifecycle[c].active
    /\ lifecycle' = [lifecycle EXCEPT ![c].active = FALSE,
                                      ![c].timersSet = @ + 1]
    /\ cleanupTimerRef' =
           [cleanupTimerRef EXCEPT ![c] = lifecycle[c].timersSet + 1]
    /\ timers' = [timers EXCEPT ![c] = @ \cup {lifecycle[c].timersSet + 1}]
    /\ UNCHANGED <<channelRef, removedChannels, everSubscribed, dragVars>>
    /\ UNCHANGED <<presVars, sideVars>>
    /\ last' = NoEvent
    /\ UNCHANGED <<chanState, connected, net, hookVars>>

\* the timer callback that leaves the channel in place
TimerFiresKeepsChannel(c, t) ==
    /\ t \in timers[c]
    /\ timers' = [timers EXCEPT ![c] = @ \ {t}]
    /\ IF channelRef[c] # 0
       THEN /\ removedChannels' =
                   [removedChannels EXCEPT ![c] = Append(@, channelRef[c])]
            /\ chanState' = [chanState EXCEPT ![c] = "closed"]
            /\ connected' = [connected EXCEPT ![c] = FALSE]
            /\ net' = {m \in net : m.to # c}
       ELSE UNCHANGED <<removedChannels, chanState, connected, net>>
    /\ UNCHANGED <<channelRef, cleanupTimerRef, lifecycle, everSubscribed,
                   dragVars>>
    /\ UNCHANGED <<presVars, sideVars>>
    /\ last' = NoEvent
    /\ UNCHANGED hookVars

\* the 200 ms timer fires: a channel still held is removed and forgotten;
\* the subscribe callback reports CLOSED
TimerFires(c, t) ==
    /\ t \in timers[c]
    /\ timers' = [timers EXCEPT ![c] = @ \ {t}]
    /\ IF channelRef[c] # 0
       THEN /\ removedChannels' =
                   [removedChannels EXCEPT ![c] = Append(@, channelRef[c])]
            /\ channelRef' = [channelRef EXCEPT ![c] = 0]
            /\ chanState' = [chanState EXCEPT ![c] = "closed"]
            /\ connected' = [connected EXCEPT ![c] = FALSE]
            /\ net' = {m \in net : m.to # c}
       ELSE UNCHANGED <<removedChannels, channelRef, chanState, connected,
                        net>>
    /\ UNCHANGED <<cleanupTimerRef, lifecycle, everSubscribed, dragVars>>
    /\ UNCHANGED <<presVars, sideVars>>
    /\ last' = NoEvent
    /\ UNCHANGED hookVars

TimerIds == 1 .. (MaxRuns + 1)

InitLife ==
    /\ SyncStart(0, 0, MaxFaults)
    /\ HooksMounted(MaxRuns)
    /\ CanvasIdle(0)
    /\ PresenceMounted
    /\ SessionsFresh

NextLife ==
    \/ \E c \in Clients : EffectRun(c)
    \/ \E c \in Clients : Cleanup(c)
    \/ \E c \in Clients, t \in TimerIds : TimerFires(c, t)
    \/ \E c \in Clients : Subscribed(c)
    \/ \E call \in calls : LoadExec(call)
    \/ \E call \in calls : LoadObjectsDone(call)
    \/ \E call \in calls : ReloadDone(call)

SpecLife == InitLife /\ [][NextLife]_vars

----------------------------------------------------------------------------
(* The canvas of one client: selection, lock toggle and drag gestures      *)

Dragger == "a"          \* the client whose canvas is modelled
Peer == "b"

MaxGestures == 2        \* drag gestures of the dragger
MaxMoves == 2           \* move events per gesture
DragOps == 1            \* lock toggles and peer deletions

\* frame A (locked or not), locked frame B whose centre lies inside A, and a
\* note C whose centre lies inside B and, depending on cx, inside or outside A
DragRows(cx, locked) ==
    {[id |-> 1, type |-> "frame", x |-> 0, y |-> 0, width |-> 10,
      height |-> 10, z_index |-> 1, properties |-> [locked |-> locked],
      created_by |-> "a", updated_by |-> "a"],
     [id |-> 2, type |-> "frame", x |-> 6, y |-> 2, width |-> 6,
      height |-> 6, z_index |-> 2, properties |-> [locked |-> TRUE],
      created_by |-> "a", updated_by |-> "a"],
     [id |-> 3, type |-> "sticky_note", x |-> cx, y |-> 4, width |-> 2,
      height |-> 2, z_index |-> 3, properties |-> [locked |-> FALSE],
      created_by |-> "a", updated_by |-> "a"]}

\* x of the note when the sessions start
NoteXs == {7, 10}

\* sets the user selects
Selections == {{}, {2, 3}}

\* objects the user drags and the offsets of the pointer from the start
DragIds == {1, 2}
DragDeltas == {[x |-> 1, y |-> 0], [x |-> 2, y |-> 1]}

\* currentObjects.find((o) => o.id === id): the entries found
Find(all, id) == SelectSeq(all, LAMBDA o : o.id = id)

\* startPositions.has(id)
HasPos(m, id) == \E i \in DOMAIN m : m[i].id = id

\* startPositions.set(id, { x, y }): a Map keeps the insertion order
SetPos(m, id, x, y) ==
    IF HasPos(m, id)
    THEN [i \in DOMAIN m |->
            IF m[i].id = id THEN [id |-> id, x |-> x, y |-> y] ELSE m[i]]
    ELSE Append(m, [id |-> id, x |-> x, y |-> y])

\* a containment test on the top-left corner of the object
IsInsideFrameCorner(obj, frame) ==
    /\ obj.x >= frame.x
    /\ obj.x <= frame.x + frame.width
    /\ obj.y >= frame.y
    /\ obj.y <= frame.y + frame.height

\* isInsideFrame: the centre of the object lies within the frame's bounds
\* (sizes are even, so the halves are whole numbers)
IsInsideFrame(obj, frame) ==
    LET objCenterX == IF obj.type = "circle" THEN obj.x
                      ELSE obj.x + (obj.width \div 2)
        objCenterY == IF obj.type = "circle" THEN obj.y
                      ELSE obj.y + (obj.height \div 2)
    IN  /\ objCenterX >= frame.x
        /\ objCenterX <= frame.x + frame.width
        /\ objCenterY >= frame.y
        /\ objCenterY <= frame.y + frame.height

\* obj.type === 'frame' && obj.properties.locked
LockedFrame(obj) == obj.type = "frame" /\ obj.properties.locked

\* collectLockedFrameContents, from entry i of allObjects on
RECURSIVE CollectLockedFrameContents(_, _, _, _)
CollectLockedFrameContents(frame, allObjects, i, collected) ==
    IF i > Len(allObjects) THEN collected
    ELSE LET obj == allObjects[i]
         IN  IF \/ HasPos(collected, obj.id)
                \/ obj.type = "connector"
                \/ obj.id = frame.id
                \/ ~IsInsideFrame(obj, frame)
             THEN CollectLockedFrameContents(frame, allObjects, i + 1,
                                             collected)
             ELSE LET added == SetPos(collected, obj.id, obj.x, obj.y)
                      inner == IF LockedFrame(obj)
                               THEN CollectLockedFrameContents(
                                        obj, allObjects, 1, added)
                               ELSE added
                  IN  CollectLockedFrameContents(frame, allObjects, i + 1,
                                                 inner)

\* for (const obj of currentObjects) if (currentSelectedIds.has(obj.id)) ...
RECURSIVE SelectedPositions(_, _, _, _)
SelectedPositions(sel, allObjects, i, m) ==
    IF i > Len(allObjects) THEN m
    ELSE SelectedPositions(sel, allObjects, i + 1,
             IF allObjects[i].id \in sel
             THEN SetPos(m, allObjects[i].id, allObjects[i].x,
                         allObjects[i].y)
             ELSE m)

\* for (const [selId] of startPositions): entries added on the way are
\* visited as well
RECURSIVE SelectedLockedFrames(_, _, _, _)
SelectedLockedFrames(m, i, id, allObjects) ==
    IF i > Len(m) THEN m
    ELSE LET found == Find(allObjects, m[i].id)
         IN  IF m[i].id # id /\ found # <<>> /\ LockedFrame(found[1])
             THEN SelectedLockedFrames(
                      CollectLockedFrameContents(found[1], allObjects, 1, m),
                      i + 1, id, allObjects)
             ELSE SelectedLockedFrames(m, i + 1, id, allObjects)

\* the start positions gathered on the first move of a gesture
StartPositions(id, sel, allObjects) ==
    LET multi == IF id \in sel /\ Cardinality(sel) > 1
                 THEN SelectedPositions(sel, allObjects, 1, <<>>)
                 ELSE <<>>
        dragged == Find(allObjects, id)
        frame == IF dragged # <<>> /\ LockedFrame(dragged[1])
                 THEN CollectLockedFrameContents(
                          dragged[1], allObjects, 1,
                          IF HasPos(multi, id) THEN multi
                          ELSE SetPos(multi, id, dragged[1].x, dragged[1].y))
                 ELSE multi
    IN  SelectedLockedFrames(frame, 1, id, allObjects)

\* multiDragRef.current after the first-move block of handleObjectDragMove
InitSession(current, id, sel, allObjects) ==
    IF current.active THEN current
    ELSE LET startPositions == StartPositions(id, sel, allObjects)
             dragged == Find(allObjects, id)
         IN  IF Len(startPositions) > 1
             THEN [active |-> TRUE, draggedId |-> id,
                   startPositions |->
                       IF ~HasPos(startPositions, id) /\ dragged # <<>>
                       THEN SetPos(startPositions, id, dragged[1].x,
                                   dragged[1].y)
                       ELSE startPositions]
             ELSE current

\* a move event that is broadcast as a durable update
DragMoveEventAsUpdate(id, x, y) ==
    [event |-> "object-update", payload |-> [id |-> id, x |-> x, y |-> y]]

\* the event onDragMove(id, x, y) hands to the channel
DragMoveEvent(id, x, y) ==
    [event |-> "object-move", payload |-> [id |-> id, x |-> x, y |-> y]]

\* the pointer position of a move event: start of the dragged object plus
\* an offset
PointerAt(id, delta) ==
    LET from == IF gesture.phase = "dragging" THEN gesture.list
                ELSE objects[Dragger]
        start == Find(from, id)[1]
    IN  [x |-> start.x + delta.x, y |-> start.y + delta.y]

\* handleObjectDragMove(id, x, y), called by the dragmove handler of a
\* mounted object: onDragMove broadcasts the dragged object (throttled); the
\* first move of a gesture sets multiDragRef up if nothing is held there;
\* the siblings are then moved on the Konva stage only
DragMove(id, delta) ==
    /\ id \in Ids(objects[Dragger])
    /\ \/ /\ gesture.phase # "dragging"
          /\ gesturesLeft > 0
          /\ gesturesLeft' = gesturesLeft - 1
          /\ gesture' = [phase |-> "dragging", id |-> id,
                         x |-> PointerAt(id, delta).x,
                         y |-> PointerAt(id, delta).y, moves |-> 1,
                         list |-> objects[Dragger], sel |-> selectedIds]
       \/ /\ gesture.phase = "dragging"
          /\ gesture.id = id
          /\ gesture.moves < MaxMoves
          /\ id \in Ids(gesture.list)
          /\ gesture' = [gesture EXCEPT !.x = PointerAt(id, delta).x,
                                        !.y = PointerAt(id, delta).y,
                                        !.moves = @ + 1]
          /\ UNCHANGED gesturesLeft
    /\ IF Throttled(Dragger)
       THEN UNCHANGED <<lastDragBroadcast, net>>
       ELSE /\ lastDragBroadcast' =
                   [lastDragBroadcast EXCEPT ![Dragger] = now]
            /\ net' = Send(net, Dragger,
                           DragMoveEvent(id, gesture'.x, gesture'.y).event,
                           DragMoveEvent(id, gesture'.x, gesture'.y).payload)
    /\ multiDragRef' =
           InitSession(multiDragRef, id, selectedIds, objects[Dragger])
    /\ UNCHANGED <<selectedIds, everSubscribed, lifeVars>>
    /\ UNCHANGED <<presVars, sideVars>>
    /\ last' = NoEvent
    /\ UNCHANGED <<objects, loading, connected, zIndexCounter,
                   hasBeenConnected, chanState, calls, db, nextId, now,
                   opsLeft, flapsLeft, faultsLeft, dbVersion, syncVer>>

\* the calls after updateObject was called once per entry of the list
RECURSIVE StartUpdates(_, _, _)
StartUpdates(cs, c, list) ==
    IF list = <<>> THEN cs
    ELSE StartUpdates(
             cs \cup {[n |-> NextSlot(cs, c), c |-> c, fn |-> "updateObject",
                       stage |-> "getUser", id |-> list[1].id,
                       updates |-> list[1].updates]},
             c, Tail(list))

\* the sibling updates of a drag end, without the participant listed last
SiblingUpdatesButLast(session, id, updates) ==
    LET start == Find(session.startPositions, id)
        others == SelectSeq(session.startPositions, LAMBDA p : p.id # id)
        most == SubSeq(others, 1, Len(others) - 1)
    IN  IF start = <<>> THEN <<>>
        ELSE [i \in DOMAIN most |->
                [id |-> most[i].id,
                 updates |-> [x |-> most[i].x + (updates.x - start[1].x),
                              y |-> most[i].y + (updates.y - start[1].y)]]]

\* the onUpdate calls handleObjectUpdate makes for the other participants
\* of the session: start position plus the offset of the dragged object
SiblingUpdates(session, id, updates) ==
    LET start == Find(session.startPositions, id)
        others == SelectSeq(session.startPositions, LAMBDA p : p.id # id)
    IN  IF start = <<>> THEN <<>>
        ELSE [i \in DOMAIN others |->
                [id |-> others[i].id,
                 updates |-> [x |-> others[i].x + (updates.x - start[1].x),
                              y |-> others[i].y + (updates.y - start[1].y)]]]

\* multi && multi.draggedId === id && 'x' in updates && 'y' in updates
\* && !('width' in updates)
EndsSession(session, id, updates) ==
    /\ session.active
    /\ session.draggedId = id
    /\ "x" \in DOMAIN updates
    /\ "y" \in DOMAIN updates
    /\ "width" \notin DOMAIN updates

\* handleObjectUpdate(id, updates): onUpdate for the object itself, then for
\* the other participants when the update ends the session's gesture, and
\* multiDragRef is cleared
HandleObjectUpdate(id, updates) ==
    /\ calls' = StartUpdates(calls, Dragger,
          <<[id |-> id, updates |-> updates]>>
          \o (IF EndsSession(multiDragRef, id, updates)
              THEN SiblingUpdates(multiDragRef, id, updates) ELSE <<>>))
    /\ multiDragRef' = IF EndsSession(multiDragRef, id, updates)
                       THEN NoSession ELSE multiDragRef

\* the dragend handler of the dragged object: onUpdate(id, { x, y }) with
\* the position of its node
DragEnd ==
    /\ gesture.phase = "dragging"
    /\ HandleObjectUpdate(gesture.id, [x |-> gesture.x, y |-> gesture.y])
    /\ gesture' = [gesture EXCEPT !.phase = "ended"]
    /\ UNCHANGED <<selectedIds, gesturesLeft, everSubscribed, lifeVars>>
    /\ UNCHANGED <<presVars, sideVars>>
    /\ last' = NoEvent
    /\ UNCHANGED <<objects, loading, connected, zIndexCounter,
                   hasBeenConnected, lastDragBroadcast, chanState, net, db,
                   nextId, now, opsLeft, flapsLeft, faultsLeft, dbVersion,
                   syncVer>>

\* the dragged object left the list while it was dragged and its component
\* unmounted without a dragend reaching handleObjectUpdate
GestureLost ==
    /\ gesture.phase = "dragging"
    /\ gesture.id \notin Ids(objects[Dragger])
    /\ gesture' = [gesture EXCEPT !.phase = "lost"]
    /\ UNCHANGED <<selectedIds, multiDragRef, gesturesLeft, everSubscribed,
                   lifeVars>>
    /\ UNCHANGED <<presVars, sideVars>>
    /\ last' = NoEvent
    /\ UNCHANGED <<chanState, connected, net, hookVars>>

\* setSelectedIds(ids)
Select(ids) ==
    /\ gesture.phase # "dragging"
    /\ ids # selectedIds
    /\ selectedIds' = ids
    /\ UNCHANGED <<multiDragRef, gesture, gesturesLeft, everSubscribed,
                   lifeVars>>
    /\ UNCHANGED <<presVars, sideVars>>
    /\ last' = NoEvent
    /\ UNCHANGED <<chanState, connected, net, hookVars>>

\* the selected frames, in list order, each with its lock inverted
LockToggles(sel, allObjects) ==
    LET frames == SelectSeq(allObjects,
                            LAMBDA o : o.id \in sel /\ o.type = "frame")
    IN  [i \in DOMAIN frames |->
            [id |-> frames[i].id,
             updates |-> [properties |->
                 Spread(frames[i].properties,
                        [locked |-> ~frames[i].properties.locked])]]]

\* the Lock/Unlock button: onUpdate(frame.id, { properties }) for every
\* selected frame
ToggleLock ==
    /\ gesture.phase # "dragging"
    /\ opsLeft > 0
    /\ LockToggles(selectedIds, objects[Dragger]) # <<>>
    /\ opsLeft' = opsLeft - 1
    /\ calls' = StartUpdates(calls, Dragger,
                             LockToggles(selectedIds, objects[Dragger]))
    /\ UNCHANGED <<dragVars, everSubscribed, lifeVars>>
    /\ UNCHANGED <<presVars, sideVars>>
    /\ last' = NoEvent
    /\ UNCHANGED <<objects, loading, connected, zIndexCounter,
                   hasBeenConnected, lastDragBroadcast, chanState, net, db,
                   nextId, now, flapsLeft, faultsLeft, dbVersion, syncVer>>

\* both clients have loaded the board and are subscribed
DragBoard(gestures) ==
    /\ \E cx \in NoteXs, locked \in BOOLEAN : db = DragRows(cx, locked)
    /\ \E rows \in LoadResults(db) : objects = [c \in Clients |-> rows]
    /\ loading = [c \in Clients |-> FALSE]
    /\ connected = [c \in Clients |-> TRUE]
    /\ zIndexCounter = [c \in Clients |-> MaxZ(objects[c])]
    /\ hasBeenConnected = [c \in Clients |-> TRUE]
    /\ lastDragBroadcast = [c \in Clients |-> 0]
    /\ chanState = [c \in Clients |-> "joined"]
    /\ calls = {}
    /\ net = {}
    /\ nextId = Cardinality(db) + 1
    /\ now = 2 * DRAG_THROTTLE_MS
    /\ opsLeft = DragOps
    /\ flapsLeft = [c \in Clients |-> 0]
    /\ faultsLeft = 0
    /\ dbVersion = 0
    /\ syncVer = [c \in Clients |-> -1]
    /\ last = NoEvent
    /\ everSubscribed = [c \in Clients |-> TRUE]
    /\ HooksMounted(0)
    /\ CanvasIdle(gestures)
    /\ PresenceMounted
    /\ SessionsFresh

InitDrag == DragBoard(MaxGestures)

\* one client edits frames and drags; what the table and the peer do with
\* its updates is not followed
NextFrame ==
    \/ \E ids \in Selections : Select(ids)
    \/ ToggleLock
    \/ \E id \in DragIds, delta \in DragDeltas : DragMove(id, delta)
    \/ DragEnd
    \/ \E call \in calls : UpdateGotUser(call, call.c)

SpecFrame == InitDrag /\ [][NextFrame]_vars

\* the same canvas while the peer deletes objects
NextDrag ==
    \/ \E ids \in Selections : Select(ids)
    \/ ToggleLock
    \/ \E id \in DragIds, delta \in DragDeltas : DragMove(id, delta)
    \/ DragEnd
    \/ \E call \in calls : UpdateGotUser(call, call.c)
    \/ \E id \in KnownIds : DeleteObject(Peer, id)
    \/ \E m \in net : m.to = Dragger /\ Deliver(m)
    \/ GestureLost

SpecDrag == InitDrag /\ [][NextDrag]_vars

\* one gesture, the peer's deletion, and what the table and the peers do
\* with the updates of the drag end
InitDragEnd == DragBoard(1)

NextDragEnd ==
    \/ \E id \in DragIds, delta \in DragDeltas : DragMove(id, delta)
    \/ DragEnd
    \/ GestureLost
    \/ \E call \in calls : UpdateGotUser(call, call.c)
    \/ \E call \in calls : UpdateExec(call)
    \/ \E id \in KnownIds : DeleteObject(Peer, id)
    \/ \E call \in calls : DeleteExec(call)
    \/ \E m \in net : Deliver(m)

SpecDragEnd == InitDragEnd /\ [][NextDragEnd]_vars

----------------------------------------------------------------------------
(* usePresence: cursor broadcasts on the presence channel                  *)

PresenceOps == 2        \* pointer callbacks in one behaviour
PresenceFlaps == 1      \* errors per client on its channels

\* positions the pointer reports
CursorPos == {[x |-> 2, y |-> 1]}

\* channel.send on the presence channel: the event goes to every other
\* client whose presence channel is joined (broadcast: { self: false })
SendCursor(msgs, c, payload) ==
    msgs \cup {[to |-> d, event |-> "cursor", payload |-> payload] :
                 d \in {e \in Clients \ {c} :
                           /\ presenceState[e] = "joined"
                           /\ channelBoard[e].presence =
                                  channelBoard[c].presence}}

\* broadcastCursor(x, y): dropped inside the throttle window; otherwise the
\* time is recorded and, if a channel is held, a cursor event is sent
BroadcastCursor(c, pos) ==
    /\ opsLeft > 0
    /\ opsLeft' = opsLeft - 1
    /\ IF CursorThrottled(c)
       THEN UNCHANGED <<lastBroadcast, cursorNet>>
       ELSE /\ lastBroadcast' = [lastBroadcast EXCEPT ![c] = now]
            /\ cursorNet' = IF presenceRef[c] = 0 THEN cursorNet
                            ELSE SendCursor(cursorNet, c,
                                            [x |-> pos.x, y |-> pos.y,
                                             userId |-> c])
    /\ UNCHANGED <<presenceRef, presenceState, presenceLife, cursors, offline>>
    /\ UNCHANGED <<everSubscribed, lifeVars, dragVars>>
    /\ UNCHANGED sideVars
    /\ last' = NoEvent
    /\ UNCHANGED <<objects, loading, connected, zIndexCounter,
                   hasBeenConnected, lastDragBroadcast, chanState, calls,
                   net, db, nextId, now, flapsLeft, faultsLeft, dbVersion,
                   syncVer>>

\* the cursor handler: setCursors(next.set(payload.userId, payload)) unless
\* the event carries the receiver's own userId
OnCursor(prev, userId, payload) ==
    IF payload.userId = userId THEN prev
    ELSE {p \in prev : p.userId # payload.userId} \cup {payload}

\* a cursor event is delivered to its receiver
ReceiveCursor(m) ==
    /\ m \in cursorNet
    /\ presenceState[m.to] = "joined"
    /\ cursors' = [cursors EXCEPT ![m.to] = OnCursor(@, m.to, m.payload)]
    /\ cursorNet' = cursorNet \ {m}
    /\ UNCHANGED <<lastBroadcast, presenceRef, presenceState, presenceLife,
                   offline>>
    /\ UNCHANGED <<everSubscribed, lifeVars, dragVars>>
    /\ UNCHANGED sideVars
    /\ last' = NoEvent
    /\ UNCHANGED <<objects, loading, connected, zIndexCounter,
                   hasBeenConnected, lastDragBroadcast, chanState, calls,
                   net, db, nextId, now, opsLeft, flapsLeft, faultsLeft,
                   dbVersion, syncVer>>

\* the presence channel's subscribe callback is called with SUBSCRIBED: the
\* hook tracks its presence and keeps no connectivity state
PresenceSubscribed(c) ==
    /\ presenceRef[c] # 0
    /\ presenceState[c] \in {"joining", "errored"}
    /\ presenceState' = [presenceState EXCEPT ![c] = "joined"]
    /\ UNCHANGED <<lastBroadcast, presenceRef, presenceLife, cursors,
                   cursorNet, offline>>
    /\ UNCHANGED <<everSubscribed, lifeVars, dragVars>>
    /\ UNCHANGED sideVars
    /\ last' = NoEvent
    /\ UNCHANGED <<objects, loading, connected, zIndexCounter,
                   hasBeenConnected, lastDragBroadcast, chanState, calls,
                   net, db, nextId, now, opsLeft, flapsLeft, faultsLeft,
                   dbVersion, syncVer>>

\* the presence channel's subscribe callback is called with CHANNEL_ERROR,
\* TIMED_OUT or CLOSED: nothing is recorded; events addressed to the client
\* are lost
PresenceError(c) ==
    /\ presenceRef[c] # 0
    /\ presenceState[c] \in {"joining", "joined"}
    /\ flapsLeft[c] > 0
    /\ flapsLeft' = [flapsLeft EXCEPT ![c] = @ - 1]
    /\ presenceState' = [presenceState EXCEPT ![c] = "errored"]
    /\ cursorNet' = {m \in cursorNet : m.to # c}
    /\ UNCHANGED <<lastBroadcast, presenceRef, presenceLife, cursors,
                   offline>>
    /\ UNCHANGED <<everSubscribed, lifeVars, dragVars>>
    /\ UNCHANGED sideVars
    /\ last' = NoEvent
    /\ UNCHANGED <<objects, loading, connected, zIndexCounter,
                   hasBeenConnected, lastDragBroadcast, chanState, calls,
                   net, db, nextId, now, opsLeft, faultsLeft, dbVersion,
                   syncVer>>

\* the browser fires 'offline': handleOffline runs setOffline(true)
BrowserOffline(c) ==
    /\ ~offline[c]
    /\ offline' = [offline EXCEPT ![c] = TRUE]
    /\ UNCHANGED <<lastBroadcast, presenceRef, presenceState, presenceLife,
                   cursors, cursorNet>>
    /\ UNCHANGED <<everSubscribed, lifeVars, dragVars>>
    /\ UNCHANGED sideVars
    /\ last' = NoEvent
    /\ UNCHANGED <<chanState, connected, net, hookVars>>

\* the browser fires 'online': handleOnline runs setOffline(false)
BrowserOnline(c) ==
    /\ offline[c]
    /\ offline' = [offline EXCEPT ![c] = FALSE]
    /\ UNCHANGED <<lastBroadcast, presenceRef, presenceState, presenceLife,
                   cursors, cursorNet>>
    /\ UNCHANGED <<everSubscribed, lifeVars, dragVars>>
    /\ UNCHANGED sideVars
    /\ last' = NoEvent
    /\ UNCHANGED <<chanState, connected, net, hookVars>>

\* the state among the values useBoard returns
UseBoard(c) ==
    [objects |-> objects[c], loading |-> loading[c], connected |-> connected[c]]

\* the state among the values usePresence returns: { cursors, onlineUsers,
\* broadcastCursor, userColor }
UsePresence(c) == [cursors |-> cursors[c]]

\* const { field: v } = returned, then !!v: a field the object does not have
\* is undefined
Truthy(returned, field) == field \in DOMAIN returned /\ returned[field] = TRUE

\* ConnectionStatus: offline || !boardConnected || !presenceConnected, with
\* the props BoardWrapper passes
IsDisconnected(c) ==
    \/ offline[c]
    \/ ~Truthy(UseBoard(c), "connected")
    \/ ~Truthy(UsePresence(c), "connected")

\* the banner is rendered unless ConnectionStatus returns null
BannerVisible(c) == IsDisconnected(c)

InitPresence == Steady(PresenceOps, PresenceFlaps, 0)

NextPresence ==
    \/ \E c \in Clients, pos \in CursorPos : BroadcastCursor(c, pos)
    \/ \E c \in Clients, id \in KnownIds, pos \in MovePos :
          BroadcastObjectMove(c, id, pos)
    \/ Tick
    \/ \E m \in cursorNet : ReceiveCursor(m)
    \/ \E m \in net : Deliver(m)
    \/ \E c \in Clients : PresenceSubscribed(c)
    \/ \E c \in Clients : PresenceError(c)
    \/ \E c \in Clients : BrowserOffline(c)
    \/ \E c \in Clients : BrowserOnline(c)
    \/ \E c \in Clients : ChannelError(c)
    \/ \E c \in Clients : Subscribed(c)
    \/ \E call \in calls : LoadExec(call)
    \/ \E call \in calls : ReloadDone(call)

SpecPresence == InitPresence /\ [][NextPresence]_vars

----------------------------------------------------------------------------
(* Teardown of the two channels while calls are still being made           *)

TeardownOps == 2        \* calls made in one behaviour

\* the cleanup of usePresence's channel effect: it only arms a 200 ms timer
PresenceCleanup(c) ==
    /\ presenceLife[c] = "active"
    /\ presenceLife' = [presenceLife EXCEPT ![c] = "cleanupPending"]
    /\ UNCHANGED <<lastBroadcast, presenceRef, presenceState, cursors,
                   cursorNet, offline>>
    /\ UNCHANGED <<everSubscribed, lifeVars, dragVars>>
    /\ UNCHANGED sideVars
    /\ last' = NoEvent
    /\ UNCHANGED <<chanState, connected, net, hookVars>>

\* usePresence's effect body runs again: a pending cleanup timer is
\* cancelled; an existing channel is reused, otherwise one is created and
\* subscribed
PresenceEffectRun(c) ==
    /\ presenceLife[c] \in {"cleanupPending", "released"}
    /\ presenceLife' = [presenceLife EXCEPT ![c] = "active"]
    /\ IF presenceRef[c] # 0
       THEN UNCHANGED <<presenceRef, presenceState, channelBoard>>
       ELSE /\ presenceRef' = [presenceRef EXCEPT ![c] = 1]
            /\ presenceState' = [presenceState EXCEPT ![c] = "joining"]
            /\ channelBoard' = [channelBoard EXCEPT ![c].presence = boardId[c]]
    /\ UNCHANGED <<lastBroadcast, cursors, cursorNet, offline>>
    /\ UNCHANGED <<everSubscribed, lifeVars, dragVars>>
    /\ UNCHANGED <<boardId, appliedSince, walk, ai>>
    /\ last' = NoEvent
    /\ UNCHANGED <<chanState, connected, net, hookVars>>

\* usePresence's 200 ms timer fires: a channel still held is removed and
\* forgotten
PresenceTimerFires(c) ==
    /\ presenceLife[c] = "cleanupPending"
    /\ presenceLife' = [presenceLife EXCEPT ![c] = "released"]
    /\ IF presenceRef[c] # 0
       THEN /\ presenceRef' = [presenceRef EXCEPT ![c] = 0]
            /\ presenceState' = [presenceState EXCEPT ![c] = "closed"]
            /\ cursorNet' = {m \in cursorNet : m.to # c}
       ELSE UNCHANGED <<presenceRef, presenceState, cursorNet>>
    /\ UNCHANGED <<lastBroadcast, cursors, offline>>
    /\ UNCHANGED <<everSubscribed, lifeVars, dragVars>>
    /\ UNCHANGED sideVars
    /\ last' = NoEvent
    /\ UNCHANGED <<chanState, connected, net, hookVars>>

InitTeardown == Steady(TeardownOps, 0, 0)

NextTeardown ==
    \/ \E c \in Clients : Cleanup(c)
    \/ \E c \in Clients, t \in TimerIds : TimerFires(c, t)
    \/ \E c \in Clients : PresenceCleanup(c)
    \/ \E c \in Clients : PresenceEffectRun(c)
    \/ \E c \in Clients : PresenceTimerFires(c)
    \/ \E c \in Clients : PresenceSubscribed(c)
    \/ \E c \in Clients, id \in KnownIds, updates \in Patches :
          UpdateObject(c, id, updates)
    \/ \E call \in calls : UpdateGotUser(call, call.c)
    \/ \E call \in calls : UpdateExec(call)
    \/ \E c \in Clients, id \in KnownIds : DeleteObject(c, id)
    \/ \E call \in calls : DeleteExec(call)
    \/ \E c \in Clients, id \in KnownIds, pos \in MovePos :
          BroadcastObjectMove(c, id, pos)
    \/ \E c \in Clients, pos \in CursorPos : BroadcastCursor(c, pos)
    \/ \E m \in net : Deliver(m)
    \/ \E m \in cursorNet : ReceiveCursor(m)

SpecTeardown == InitTeardown /\ [][NextTeardown]_vars

----------------------------------------------------------------------------
(* Malformed inbound events                                                *)

MalformedOps == 1       \* operations in one behaviour
MalformedEvents == 2    \* malformed events in one behaviour

\* an event that carries no payload
NoPayload == [missing |-> TRUE]

\* the id read from a payload that carries none (undefined); no object has it
NoId == 0

\* a payload with the fields of a BoardObject but no id
IdlessRow == [id |-> NoId, x |-> 1, y |-> 1, z_index |-> 2,
              created_by |-> "b", updated_by |-> "b"]

MalformedPayloads == {NoPayload, IdlessRow}

Events == {"object-move", "object-create", "object-update", "object-delete"}

\* a registered handler as a whole: if (!payload) return; then its body
HandleEvent(prev, event, payload) ==
    IF payload = NoPayload THEN prev ELSE ApplyEvent(prev, event, payload)

\* a malformed event arrives on the client's channel and its handler runs
ReceiveMalformed(c, event, payload) ==
    /\ chanState[c] = "joined"
    /\ Fails
    /\ objects' = [objects EXCEPT ![c] = HandleEvent(@, event, payload)]
    /\ zIndexCounter' = [zIndexCounter EXCEPT ![c] =
          IF event = "object-create" /\ payload # NoPayload
          THEN BumpCounter(@, payload) ELSE @]
    /\ syncVer' = [syncVer EXCEPT ![c] = -1]
    /\ appliedSince' = IF payload = NoPayload THEN appliedSince
                       ELSE Applied(appliedSince, c, event, payload.id)
    /\ UNCHANGED <<everSubscribed, lifeVars, dragVars, presVars>>
    /\ UNCHANGED <<boardId, channelBoard, walk, ai>>
    /\ last' = [c |-> c, event |-> event, known |-> FALSE]
    /\ UNCHANGED <<loading, connected, hasBeenConnected, lastDragBroadcast,
                   chanState, calls, net, db, nextId, now, opsLeft, flapsLeft,
                   dbVersion>>

InitMalformed == Steady(MalformedOps, 0, MalformedEvents)

NextMalformed ==
    \/ \E c \in Clients, event \in Events, payload \in MalformedPayloads :
          ReceiveMalformed(c, event, payload)
    \/ \E c \in Clients, id \in KnownIds, updates \in Patches :
          UpdateObject(c, id, updates)
    \/ \E call \in calls : UpdateGotUser(call, call.c)
    \/ \E call \in calls : UpdateExec(call)
    \/ \E c \in Clients, id \in KnownIds : DeleteObject(c, id)
    \/ \E call \in calls : DeleteExec(call)
    \/ \E m \in net : Deliver(m)

SpecMalformed == InitMalformed /\ [][NextMalformed]_vars

----------------------------------------------------------------------------
(* Concurrent creates on an empty board                                    *)

CreateOps == 3          \* createObject calls in one behaviour

InitCreate ==
    /\ Start(CreateOps, 0, 0)
    /\ db = {}

NextCreate ==
    \/ \E c \in Clients, pos \in CreatePos : CreateObject(c, pos)
    \/ \E call \in calls : CreateGotUser(call, call.c)
    \/ \E call \in calls : InsertExec(call)
    \/ \E call \in calls : CreateDone(call)
    \/ \E call \in calls : LoadExec(call)
    \/ \E call \in calls : LoadObjectsDone(call)

SpecCreate == InitCreate /\ [][NextCreate]_vars

----------------------------------------------------------------------------
(* Two subscribed peers, every broadcast delivered once                    *)

PeerOps == 2            \* operations in one behaviour

InitPeers == Steady(PeerOps, MaxFlaps, 0)

NextPeers ==
    \/ \E call \in calls : LoadExec(call)
    \/ \E call \in calls : ReloadDone(call)
    \/ \E c \in Clients : Subscribed(c)
    \/ \E c \in Clients : ChannelError(c)
    \/ \E c \in Clients, pos \in CreatePos : CreateObject(c, pos)
    \/ \E call \in calls : CreateGotUser(call, call.c)
    \/ \E call \in calls : InsertExec(call)
    \/ \E call \in calls : CreateDone(call)
    \/ \E c \in Clients, id \in KnownIds, updates \in Patches :
          UpdateObject(c, id, updates)
    \/ \E call \in calls : UpdateGotUser(call, call.c)
    \/ \E call \in calls : UpdateExec(call)
    \/ \E m \in net : Deliver(m)

SpecPeers == InitPeers /\ [][NextPeers]_vars

----------------------------------------------------------------------------
(* Two sessions starting up while a peer creates and deletes: every        *)
(* broadcast is sent to a joined peer and delivered once, and a client     *)
(* sends its next broadcast only after its previous one has arrived.       *)

ReorderOps == 2         \* operations in one behaviour

InitReorder == Start(ReorderOps, 0, 0)

\* every client's channel is SUBSCRIBED
AllJoined == \A c \in Clients : chanState[c] = "joined"

\* no broadcast sent by client c is still on its way
NoneInFlightFrom(c) == \A m \in net : m.to = c

NextReorder ==
    \/ \E call \in calls : LoadExec(call)
    \/ \E call \in calls : LoadObjectsDone(call)
    \/ \E c \in Clients : Subscribed(c)
    \/ \E c \in Clients, pos \in CreatePos : CreateObject(c, pos)
    \/ \E call \in calls : CreateGotUser(call, call.c)
    \/ \E call \in calls : InsertExec(call)
    \/ \E call \in calls :
          AllJoined /\ NoneInFlightFrom(call.c) /\ CreateDone(call)
    \/ \E c \in Clients, id \in KnownIds :
          /\ AllJoined /\ NoneInFlightFrom(c)
          /\ id \in Ids(objects[c])
          /\ DeleteObject(c, id)
    \/ \E call \in calls : DeleteExec(call)
    \/ \E m \in net : Deliver(m)

SpecReorder == InitReorder /\ [][NextReorder]_vars

----------------------------------------------------------------------------
(* usePresence: the cursor map under cursor and leave events of the whole  *)
(* board, including users whose sessions are not among the two clients     *)

CursorOps == 2          \* pointer callbacks of the two clients

\* the users of the board: the two clients and one other
Users == Clients \cup {"u"}

\* positions the other users' cursor events carry
RemotePos == {[x |-> 2, y |-> 1], [x |-> 5, y |-> 3]}

\* payloads of cursor events: a position with the sender's userId, which is
\* the receiver's own when the same user has a second session; or none
CursorPayloads ==
    {[x |-> pos.x, y |-> pos.y, userId |-> u] : pos \in RemotePos, u \in Users}
        \cup {NoPayload}

\* leftPresences of a leave event: the presences of one or two users
LeftPresences ==
    {<<[userId |-> u]>> : u \in Users}
        \cup {<<[userId |-> u], [userId |-> w]>> : u \in Users, w \in Users}

\* the leave handler that empties the map
OnLeaveClears(prev, leftPresences) == {}

\* the leave handler: for (const p of leftPresences) next.delete(p.userId)
RECURSIVE OnLeave(_, _)
OnLeave(prev, leftPresences) ==
    IF leftPresences = <<>> THEN prev
    ELSE OnLeave({p \in prev : p.userId # Head(leftPresences).userId},
                 Tail(leftPresences))

\* a cursor event of the board reaches the client's handler: ignored when
\* it has no payload (or the receiver's own userId, see OnCursor)
CursorEvent(c, payload) ==
    /\ presenceState[c] = "joined"
    /\ cursors' = [cursors EXCEPT ![c] =
                      IF payload = NoPayload THEN @
                      ELSE OnCursor(@, c, payload)]
    /\ UNCHANGED <<lastBroadcast, presenceRef, presenceState, presenceLife,
                   cursorNet, offline>>
    /\ UNCHANGED <<everSubscribed, lifeVars, dragVars>>
    /\ UNCHANGED sideVars
    /\ last' = [c |-> c, event |-> "cursor",
                known |-> /\ payload # NoPayload
                          /\ \E p \in cursors[c] :
                                p.userId = payload.userId]
    /\ UNCHANGED <<objects, loading, connected, zIndexCounter,
                   hasBeenConnected, lastDragBroadcast, chanState, calls,
                   net, db, nextId, now, opsLeft, flapsLeft, faultsLeft,
                   dbVersion, syncVer>>

\* a presence leave event reaches the client's handler
PresenceLeave(c, leftPresences) ==
    /\ presenceState[c] = "joined"
    /\ cursors' = [cursors EXCEPT ![c] = OnLeave(@, leftPresences)]
    /\ UNCHANGED <<lastBroadcast, presenceRef, presenceState, presenceLife,
                   cursorNet, offline>>
    /\ UNCHANGED <<everSubscribed, lifeVars, dragVars>>
    /\ UNCHANGED sideVars
    /\ last' = [c |-> c, event |-> "leave",
                known |-> OnLeave(cursors[c], leftPresences) # cursors[c]]
    /\ UNCHANGED <<objects, loading, connected, zIndexCounter,
                   hasBeenConnected, lastDragBroadcast, chanState, calls,
                   net, db, nextId, now, opsLeft, flapsLeft, faultsLeft,
                   dbVersion, syncVer>>

InitCursors == Steady(CursorOps, 0, 0)

NextCursors ==
    \/ \E c \in Clients : PresenceSubscribed(c)
    \/ \E c \in Clients, pos \in CursorPos : BroadcastCursor(c, pos)
    \/ \E m \in cursorNet : ReceiveCursor(m)
    \/ \E c \in Clients, payload \in CursorPayloads : CursorEvent(c, payload)
    \/ \E c \in Clients, leftPresences \in LeftPresences :
          PresenceLeave(c, leftPresences)

SpecCursors == InitCursors /\ [][NextCursors]_vars

----------------------------------------------------------------------------
(* A session starts while the peer creates objects: nothing fails, no      *)
(* channel errors, every broadcast that was sent to a client arrives, and  *)
(* every promise and callback that is pending is eventually run.           *)

JoinOps == 2            \* createObject calls of the peer

InitJoin == Start(JoinOps, 0, 0)

NextJoin ==
    \/ \E call \in calls : LoadExec(call)
    \/ \E call \in calls : LoadObjectsDone(call)
    \/ \E c \in Clients : Subscribed(c)
    \/ \E pos \in CreatePos : CreateObject(Peer, pos)
    \/ \E call \in calls : CreateGotUser(call, call.c)
    \/ \E call \in calls : InsertExec(call)
    \/ \E call \in calls : CreateDone(call)
    \/ \E m \in net : Deliver(m)

SpecJoin == InitJoin /\ [][NextJoin]_vars /\ WF_vars(NextJoin)

----------------------------------------------------------------------------
(* The AI command route: the tool-use loop of POST                         *)

MAX_ITERATIONS == 10
MaxBlocks == 2          \* tool_use blocks in one response of the model

\* tool names the model asks for: one of each kind of toolDefinitions
ToolNames == {"create_sticky_note", "move_object", "update_text",
              "delete_object", "get_board_state"}

\* the tool_use blocks of one response, by tool name
RECURSIVE BlockLists(_)
BlockLists(n) ==
    IF n = 0 THEN {<<>>}
    ELSE BlockLists(n - 1) \cup
         {Append(blocks, name) : blocks \in BlockLists(n - 1), name \in ToolNames}

\* text.startsWith(prefix), the text given word by word
StartsWith(text, prefix) == text # <<>> /\ Head(text) = prefix

\* `Error: ${error.message}`
ToolError == [result |-> "null", response |-> <<"Error:", "message">>]

\* 'Object not found'
NotFound == [result |-> "null", response |-> <<"Object", "not", "found">>]

\* what executeTool can return for a tool: the action of its result (or
\* null) and its response text
ExecuteTool(name) ==
    CASE name = "create_sticky_note" ->
           {[result |-> "create", response |-> <<"Created", "sticky", "note">>],
            ToolError}
      [] name = "move_object" ->
           {[result |-> "update", response |-> <<"Moved", "object">>],
            ToolError}
      [] name = "update_text" ->
           {[result |-> "update", response |-> <<"Updated", "text">>],
            NotFound, ToolError}
      [] name = "delete_object" ->
           {[result |-> "delete", response |-> <<"Deleted", "object">>],
            NotFound, ToolError}
      [] name = "get_board_state" ->
           {[result |-> "null", response |-> <<"[", "]">>]}
      [] OTHER ->
           {[result |-> "null", response |-> <<"Unknown", "tool:", name>>]}

\* !complex && !hasError && allResults.length > 0 && !calledGetState
EarlyReturn(complex, hasError, allResults, toolNames) ==
    ~complex /\ ~hasError /\ allResults > 0
        /\ "get_board_state" \notin toolNames

\* the route leaves every other part of the state alone
AiOnly ==
    UNCHANGED <<syncVars, everSubscribed, lifeVars, dragVars, presVars,
                boardId, channelBoard, appliedSince, walk>>

\* POST is called: the command is classified and the first request is sent
\* to the model
Post(complex) ==
    /\ ai.phase = "idle"
    /\ ai' = [NoRequest EXCEPT !.phase = "model", !.complex = complex,
                               !.modelCalls = 1]
    /\ AiOnly

\* anthropic.messages.create resolves; the while condition is evaluated and
\* either an iteration starts with its first tool call, or the route
\* returns the model's text
ModelResponds(stop_reason, content) ==
    /\ ai.phase = "model"
    /\ stop_reason = "tool_use" => content # <<>>
    /\ IF stop_reason = "tool_use" /\ ai.iterations < MAX_ITERATIONS
       THEN ai' = [ai EXCEPT !.phase = "tools",
                             !.iterations = @ + 1,
                             !.pending = content,
                             !.hasError = FALSE,
                             !.toolNames = {}]
       ELSE ai' = [ai EXCEPT !.phase = "returned"]
    /\ AiOnly

\* executeTool resolves for the next tool_use block; after the last block
\* of the response the early-return test is made: break and return the
\* summary, or push the results and call the model again
ToolDone(outcome) ==
    /\ ai.phase = "tools"
    /\ outcome \in ExecuteTool(Head(ai.pending))
    /\ LET name == Head(ai.pending)
           toolNames == ai.toolNames \cup {name}
           allResults == IF outcome.result # "null" THEN ai.allResults + 1
                         ELSE ai.allResults
           hasError == ai.hasError \/ StartsWith(outcome.response, "Error:")
           ran == [ai EXCEPT !.pending = Tail(@),
                             !.toolNames = toolNames,
                             !.allResults = allResults,
                             !.hasError = hasError,
                             !.failed = @ \/ (/\ name # "get_board_state"
                                              /\ outcome.result = "null"),
                             !.askedState = @ \/ name = "get_board_state"]
       IN  IF ran.pending # <<>> THEN ai' = ran
           ELSE IF EarlyReturn(ai.complex, hasError, allResults, toolNames)
           THEN ai' = [ran EXCEPT !.phase = "returned", !.earlyReturn = TRUE]
           ELSE ai' = [ran EXCEPT !.phase = "model", !.modelCalls = @ + 1]
    /\ AiOnly

InitAi == Steady(0, 0, 0)

NextAi ==
    \/ \E complex \in BOOLEAN : Post(complex)
    \/ \E stop_reason \in {"tool_use", "end_turn"},
          content \in BlockLists(MaxBlocks) :
          ModelResponds(stop_reason, content)
    \/ \E outcome \in UNION {ExecuteTool(name) : name \in ToolNames} :
          ToolDone(outcome)

SpecAi == InitAi /\ [][NextAi]_vars

----------------------------------------------------------------------------
(* collectLockedFrameContents, one loop iteration at a time                *)

WalkStepCap == 60       \* loop iterations and returns of one run

\* a locked frame 1; a frame 2 whose centre lies inside 1 and, with fx = 4,
\* around the centre of 1; a frame 6 whose centre lies inside 2; a connector
\* 3 inside 1; a note 4 inside 6 only; a note 5 outside every frame
CollectRows(fx, lock2, lock6) ==
    {[id |-> 1, type |-> "frame", x |-> 0, y |-> 0, width |-> 10,
      height |-> 10, z_index |-> 1, properties |-> [locked |-> TRUE],
      created_by |-> "a", updated_by |-> "a"],
     [id |-> 2, type |-> "frame", x |-> fx, y |-> 2, width |-> 6,
      height |-> 6, z_index |-> 1, properties |-> [locked |-> lock2],
      created_by |-> "a", updated_by |-> "a"],
     [id |-> 3, type |-> "connector", x |-> 4, y |-> 4, width |-> 2,
      height |-> 2, z_index |-> 2, properties |-> [locked |-> FALSE],
      created_by |-> "a", updated_by |-> "a"],
     [id |-> 4, type |-> "sticky_note", x |-> fx + 6, y |-> 6, width |-> 2,
      height |-> 2, z_index |-> 2, properties |-> [locked |-> FALSE],
      created_by |-> "a", updated_by |-> "a"],
     [id |-> 5, type |-> "sticky_note", x |-> 20, y |-> 20, width |-> 2,
      height |-> 2, z_index |-> 3, properties |-> [locked |-> FALSE],
      created_by |-> "a", updated_by |-> "a"],
     [id |-> 6, type |-> "frame", x |-> fx + 4, y |-> 4, width |-> 4,
      height |-> 4, z_index |-> 3, properties |-> [locked |-> lock6],
      created_by |-> "a", updated_by |-> "a"]}

\* x of frame 2 when the sessions start
FrameXs == {4, 6}

\* frames the user drags
WalkFrames == {1, 2, 6}

\* sets the user selects before dragging
CollectSelections == {{}, {1, 4}, {2, 6}}

\* a seen-set that never reports an id as collected
SeenNever(collected, id) == FALSE

\* collected.has(obj.id)
Seen(collected, id) == HasPos(collected, id)

\* the map handed to collectLockedFrameContents for the dragged frame: the
\* snapshots of a multi-selection, then the frame itself
CollectSeed(id, sel, allObjects) ==
    LET multi == IF id \in sel /\ Cardinality(sel) > 1
                 THEN SelectedPositions(sel, allObjects, 1, <<>>)
                 ELSE <<>>
        dragged == Find(allObjects, id)[1]
    IN  IF HasPos(multi, id) THEN multi
        ELSE SetPos(multi, id, dragged.x, dragged.y)

\* handleObjectDragMove reaches collectLockedFrameContents(draggedObj,
\* currentObjects, startPositions): the dragged object is a locked frame
CollectStart(id) ==
    /\ walk.phase # "running"
    /\ Find(objects[Dragger], id) # <<>>
    /\ LockedFrame(Find(objects[Dragger], id)[1])
    /\ walk' = [phase |-> "running",
                frame |-> id,
                stack |-> <<[frame |-> Find(objects[Dragger], id)[1],
                             i |-> 1]>>,
                collected |-> CollectSeed(id, selectedIds, objects[Dragger]),
                seed |-> CollectSeed(id, selectedIds, objects[Dragger]),
                written |-> <<>>,
                steps |-> 0]
    /\ UNCHANGED <<boardId, channelBoard, appliedSince, ai>>
    /\ UNCHANGED <<everSubscribed, lifeVars, dragVars, presVars>>
    /\ last' = NoEvent
    /\ UNCHANGED <<chanState, connected, net, hookVars>>

\* the stack, the map and the ids passed to collected.set after the innermost
\* call has looked at entry i of allObjects
WalkOn(stack, collected, written, allObjects) ==
    LET top == stack[Len(stack)]
        below == SubSeq(stack, 1, Len(stack) - 1)
        next == [top EXCEPT !.i = @ + 1]
    IN  IF top.i > Len(allObjects)
        THEN [stack |-> below, collected |-> collected,
              written |-> written]
        ELSE LET obj == allObjects[top.i]
             IN  IF \/ Seen(collected, obj.id)
                    \/ obj.type = "connector"
                    \/ obj.id = top.frame.id
                    \/ ~IsInsideFrame(obj, top.frame)
                 THEN [stack |-> Append(below, next),
                       collected |-> collected, written |-> written]
                 ELSE [stack |->
                           IF LockedFrame(obj)
                           THEN Append(Append(below, next),
                                       [frame |-> obj, i |-> 1])
                           ELSE Append(below, next),
                       collected |->
                           SetPos(collected, obj.id, obj.x, obj.y),
                       written |-> Append(written, obj.id)]

\* one iteration of the for loop of the innermost call, or its return
CollectStep ==
    /\ walk.phase = "running"
    /\ walk.steps < WalkStepCap
    /\ LET on == WalkOn(walk.stack, walk.collected, walk.written,
                        objects[Dragger])
       IN  walk' = [walk EXCEPT
                       !.stack = on.stack,
                       !.collected = on.collected,
                       !.written = on.written,
                       !.steps = @ + 1,
                       !.phase = IF on.stack = <<>> THEN "done" ELSE @]
    /\ UNCHANGED <<boardId, channelBoard, appliedSince, ai>>
    /\ UNCHANGED <<everSubscribed, lifeVars, dragVars, presVars>>
    /\ last' = NoEvent
    /\ UNCHANGED <<chanState, connected, net, hookVars>>

\* both clients have loaded a board of frames and are subscribed
InitCollect ==
    /\ \E fx \in FrameXs, lock2 \in BOOLEAN, lock6 \in BOOLEAN :
          db = CollectRows(fx, lock2, lock6)
    /\ \E rows \in LoadResults(db) : objects = [c \in Clients |-> rows]
    /\ loading = [c \in Clients |-> FALSE]
    /\ connected = [c \in Clients |-> TRUE]
    /\ zIndexCounter = [c \in Clients |-> MaxZ(objects[c])]
    /\ hasBeenConnected = [c \in Clients |-> TRUE]
    /\ lastDragBroadcast = [c \in Clients |-> 0]
    /\ chanState = [c \in Clients |-> "joined"]
    /\ calls = {}
    /\ net = {}
    /\ nextId = Cardinality(db) + 1
    /\ now = 2 * DRAG_THROTTLE_MS
    /\ opsLeft = 0
    /\ flapsLeft = [c \in Clients |-> 0]
    /\ faultsLeft = 0
    /\ dbVersion = 0
    /\ syncVer = [c \in Clients |-> -1]
    /\ last = NoEvent
    /\ everSubscribed = [c \in Clients |-> TRUE]
    /\ HooksMounted(0)
    /\ CanvasIdle(0)
    /\ PresenceMounted
    /\ SessionsFresh

NextCollect ==
    \/ \E ids \in CollectSelections : Select(ids)
    \/ \E id \in WalkFrames : CollectStart(id)
    \/ CollectStep

SpecCollect == InitCollect /\ [][NextCollect]_vars

----------------------------------------------------------------------------
(* The hooks are rendered again with another boardId                       *)

BoardOps == 1           \* drag broadcasts in one behaviour

\* the boards a session can be rendered for
BoardIds == {Board, 2}

\* BoardWrapper renders useBoard and usePresence with boardId b: the effects
\* that depend on boardId are cleaned up and run again in one commit.
\* loadObjects is called for b; the cleanup of each channel effect arms its
\* timer and the effect body clears it at once, then reuses the channel held
\* in channelRef or, if none is held, opens one named after b.
BoardIdChanged(c, b) ==
    /\ lifecycle[c].active
    /\ presenceLife[c] = "active"
    /\ lifecycle[c].runsLeft > 0
    /\ b # boardId[c]
    /\ boardId' = [boardId EXCEPT ![c] = b]
    /\ calls' = calls \cup {[n |-> FreeSlot(c), c |-> c, fn |-> "loadObjects",
                             stage |-> "sent", board |-> b]}
    /\ cleanupTimerRef' = [cleanupTimerRef EXCEPT ![c] = 0]
    /\ IF channelRef[c] # 0
       THEN /\ lifecycle' = [lifecycle EXCEPT ![c].runsLeft = @ - 1,
                                              ![c].timersSet = @ + 1]
            /\ UNCHANGED <<channelRef, chanState>>
       ELSE /\ lifecycle' = [lifecycle EXCEPT ![c].runsLeft = @ - 1,
                                              ![c].timersSet = @ + 1,
                                              ![c].opened = @ + 1]
            /\ channelRef' = [channelRef EXCEPT ![c] = lifecycle[c].opened + 1]
            /\ chanState' = [chanState EXCEPT ![c] = "joining"]
    /\ IF presenceRef[c] # 0
       THEN UNCHANGED <<presenceRef, presenceState>>
       ELSE /\ presenceRef' = [presenceRef EXCEPT ![c] = 1]
            /\ presenceState' = [presenceState EXCEPT ![c] = "joining"]
    /\ channelBoard' = [channelBoard EXCEPT
           ![c].objects = IF channelRef[c] # 0 THEN @ ELSE b,
           ![c].presence = IF presenceRef[c] # 0 THEN @ ELSE b]
    /\ UNCHANGED <<timers, removedChannels, everSubscribed, dragVars>>
    /\ UNCHANGED <<lastBroadcast, presenceLife, cursors, cursorNet, offline>>
    /\ appliedSince' = [appliedSince EXCEPT ![c] = {}]
    /\ UNCHANGED <<walk, ai>>
    /\ last' = NoEvent
    /\ UNCHANGED <<objects, loading, connected, zIndexCounter,
                   hasBeenConnected, lastDragBroadcast, net, db, nextId, now,
                   opsLeft, flapsLeft, faultsLeft, dbVersion, syncVer>>

\* both sessions right after mount; what the table answers is not followed
InitBoards ==
    /\ SyncStart(BoardOps, 0, 0)
    /\ db = {SeedRow}
    /\ HooksMounted(MaxRuns)
    /\ CanvasIdle(0)
    /\ PresenceMounted
    /\ SessionsFresh

NextBoards ==
    \/ \E c \in Clients, b \in BoardIds : BoardIdChanged(c, b)
    \/ \E c \in Clients : Cleanup(c)
    \/ \E c \in Clients : EffectRun(c)
    \/ \E c \in Clients, t \in TimerIds : TimerFires(c, t)
    \/ \E c \in Clients : Subscribed(c)
    \/ \E c \in Clients : PresenceCleanup(c)
    \/ \E c \in Clients : PresenceEffectRun(c)
    \/ \E c \in Clients : PresenceTimerFires(c)
    \/ \E c \in Clients, id \in KnownIds, pos \in MovePos :
          BroadcastObjectMove(c, id, pos)
    \/ \E m \in net : Deliver(m)

SpecBoards == InitBoards /\ [][NextBoards]_vars

----------------------------------------------------------------------------
(* Properties *)

\* nothing is in flight: every call has resolved, every event was delivered
Quiescent == calls = {} /\ net = {}

\* the last handler that ran at the client applied a reload that read the
\* table after its last write
Reconciled(c) == syncVer[c] = dbVersion

\* the client's list holds exactly the rows of the table, each once
MatchesDb(c) ==
    /\ Range(objects[c]) = db
    /\ Len(objects[c]) = Cardinality(db)

\* C1: Convergence. Once every persistence write has completed, every
\* broadcast has been delivered or lost, and each client has then applied a
\* reconnect reload, all clients hold the same objects with the same field
\* values, and these are the rows of the table.
C1_Convergence ==
    (Quiescent /\ \A c \in Clients : Reconciled(c)) =>
        /\ \A c \in Clients : MatchesDb(c)
        /\ \A c, d \in Clients : Range(objects[c]) = Range(objects[d])

\* both clients have reconciled after two writes changed the table
C1_Witness ==
    /\ Quiescent
    /\ \A c \in Clients : Reconciled(c)
    /\ dbVersion >= 2
    /\ db # {}

\* C2: Unique ids. No client's list ever holds two objects with one id.
C2_UniqueIds ==
    \A c \in Clients : \A i, j \in DOMAIN objects[c] :
        objects[c][i].id = objects[c][j].id => i = j

\* C3: Reconnect reconciliation. When a client has applied the reload of a
\* reconnect and the table was not written since the reload read it, the
\* client's list is exactly the rows of the table: rows created meanwhile
\* are present, rows deleted meanwhile are absent.
C3_ReconnectReconciliation ==
    \A c \in Clients : Reconciled(c) => MatchesDb(c)

\* client a has reconciled after the seed row was deleted and client b
\* created a row
C3_Witness ==
    /\ Reconciled("a")
    /\ nextId = 3
    /\ dbVersion >= 2
    /\ 1 \notin Ids(objects["a"])
    /\ \E i \in DOMAIN objects["a"] :
          objects["a"][i].id = 2 /\ objects["a"][i].created_by = "b"

\* C4: Idempotent create. After an object-create event is handled the
\* receiver holds exactly one object with the event's id, and when it held
\* the id before, its list is unchanged.
C4_IdempotentCreate ==
    [][\A m \in net :
          (m.event = "object-create" /\ Receive(m)) =>
              /\ CountId(objects'[m.to], m.payload.id) = 1
              /\ m.payload.id \in Ids(objects[m.to]) =>
                    objects'[m.to] = objects[m.to]]_vars

\* an object-create was handled by a client that already held the id; the
\* client's initial load has not been applied, so the id came from an earlier
\* delivery of the same event
C4_Witness ==
    /\ last.event = "object-create"
    /\ last.known
    /\ loading[last.c]
    /\ Len(objects[last.c]) = 1

\* C5: Dangling reference safety. An object-update, object-delete or
\* object-move whose id is not in the receiver's list leaves the list
\* unchanged.
C5_DanglingReference ==
    [][\A m \in net :
          (/\ m.event \in {"object-update", "object-delete", "object-move"}
           /\ m.payload.id \notin Ids(objects[m.to])
           /\ Receive(m)) =>
              objects'[m.to] = objects[m.to]]_vars

\* an object-update was handled by a client that did not hold the id
C5_Witness ==
    /\ last.event = "object-update"
    /\ ~last.known

\* z_index values the client knows: those of the objects in its list and
\* those it assigned to creates still in flight
KnownZ(c) ==
    {objects[c][i].z_index : i \in DOMAIN objects[c]}
    \cup {k.newObj.z_index :
            k \in {q \in calls : /\ q.c = c
                                 /\ q.fn = "createObject"
                                 /\ q.stage \in {"insertSent", "insertDone"}}}

\* C6: Monotonic stack order. Every create takes a z_index greater than
\* every z_index its client knows at that moment.
C6_MonotonicStackOrder ==
    [][\A call \in calls :
          CreateGotUser(call, call.c) =>
              \A z \in KnownZ(call.c) : zIndexCounter'[call.c] > z]_vars

\* the calls that start in this step
Started == calls' \ calls

\* C7: Optimistic create. When createObject is called the new object is in
\* the caller's list at once, before getUser or the insert has resolved.
C7_OptimisticCreate ==
    [][\A k \in Started :
          (k.fn = "createObject" /\ k.stage = "getUser") =>
              Len(objects'[k.c]) = Len(objects[k.c]) + 1]_vars

\* C8: Create without rollback. When the insert of a create has failed, the
\* object of that create is in the creating client's list.
C8_CreateWithoutRollback ==
    [][\A call \in calls :
          (call.fn = "createObject" /\ call.stage = "insertDone"
           /\ call.error /\ CreateDone(call)) =>
              \E i \in DOMAIN objects'[call.c] :
                  /\ objects'[call.c][i].z_index = call.newObj.z_index
                  /\ objects'[call.c][i].created_by = call.c]_vars

\* C9: Update ordering. When updateObject is called the partial fields are
\* merged into the caller's list in that step, before any asynchronous call
\* has resolved; and in the step that issues the persistence update the
\* object-update event has been sent to every subscribed peer and the table
\* has not been written.
C9_UpdateOrdering ==
    [][/\ \A k \in Started :
             (k.fn = "updateObject" /\ k.stage = "getUser") =>
                objects'[k.c] = MapMerge(objects[k.c], k.id, k.updates)
       /\ \A k \in Started :
             (k.fn = "updateObject" /\ k.stage = "updateSent") =>
                /\ \A d \in Clients \ {k.c} :
                      chanState[d] = "joined" =>
                         \E m \in net' : /\ m.to = d
                                          /\ m.event = "object-update"
                                          /\ m.payload.id = k.id
                /\ db' = db]_vars

\* C10: Delete ordering. In the step deleteObject is called the object
\* leaves the caller's list, the object-delete event {id} is sent to every
\* subscribed peer and the delete statement is issued; when the statement
\* later succeeds or fails, no list and no event in flight changes.
C10_DeleteOrdering ==
    [][/\ \A k \in Started :
             k.fn = "deleteObject" =>
                /\ k.stage = "deleteSent"
                /\ k.id \notin Ids(objects'[k.c])
                /\ \A d \in Clients \ {k.c} :
                      chanState[d] = "joined" =>
                         [to |-> d, event |-> "object-delete",
                          payload |-> [id |-> k.id]] \in net'
                /\ db' = db
       /\ \A k \in calls \ calls' :
             k.fn = "deleteObject" => objects' = objects /\ net' = net]_vars

\* a deleteObject call whose statement is still in flight: the row is in
\* the table, the caller has loaded its list and no longer holds the
\* object, and the object-delete event is on its way to the peer
C10_Witness ==
    \E k \in calls :
        /\ k.fn = "deleteObject"
        /\ ~loading[k.c]
        /\ k.id \in {r.id : r \in db}
        /\ k.id \notin Ids(objects[k.c])
        /\ \E m \in net : m.event = "object-delete" /\ m.payload.id = k.id

\* no updateObject call is waiting for its user or its write
WritesCompleted == \A k \in calls : k.fn # "updateObject"

\* C11: Last-write-wins. Every update statement that completes overwrites
\* the stored columns with its own, so the table holds the values of the
\* write that completed last; nothing else changes the table; and a client
\* that reloaded after both writes completed holds exactly the stored row,
\* whatever the order in which the broadcasts arrived.
C11_LastWriteWins ==
    /\ [][/\ \A k \in calls :
                (/\ k.fn = "updateObject" /\ k.stage = "updateSent"
                 /\ UpdateExec(k) /\ faultsLeft' = faultsLeft) =>
                    \A r \in db' : r.id = k.id =>
                        \A f \in DOMAIN k.columns : r[f] = k.columns[f]
          /\ db' # db => \E q \in calls : UpdateExec(q)]_vars
    /\ [](\A c \in Clients :
              (WritesCompleted /\ Reconciled(c)) => MatchesDb(c))

\* both writes completed, b's first and a's last; both clients then
\* reloaded and hold a's value
C11_Witness ==
    /\ WritesCompleted
    /\ dbVersion = 2
    /\ \A c \in Clients : Reconciled(c)
    /\ \A r \in db : r.updated_by = "a" /\ r.x = ConflictPatch["a"].x
    /\ \A c \in Clients : objects[c][1].x = ConflictPatch["a"].x

\* C12: Broadcast convergence. When both concurrent updates have been
\* merged, broadcast, delivered and written, with no failure, no lost or
\* repeated event and no reload, both clients hold the same value.
C12_BroadcastConvergence ==
    (/\ Quiescent
     /\ faultsLeft = MaxFaults
     /\ \A c \in Clients : flapsLeft[c] = MaxFlaps) =>
        objects["a"][1].x = objects["b"][1].x

\* C13: Reconcile only on reconnect. A SUBSCRIBED status issues a reload
\* exactly when the client's channel was SUBSCRIBED before; reloads are
\* issued by nothing else; hasBeenConnected never returns to false.
C13_ReconcileOnlyOnReconnect ==
    [][/\ \A c \in Clients :
             Subscribed(c) =>
                ((\E k \in Started : /\ k.fn = "reload"
                                     /\ k.stage = "sent"
                                     /\ k.c = c)
                    <=> everSubscribed[c])
       /\ \A k \in Started :
             (k.fn = "reload" /\ k.stage = "sent") => Subscribed(k.c)
       /\ \A c \in Clients :
             hasBeenConnected[c] => hasBeenConnected'[c]]_vars

\* one client is reloading after a reconnect while the other has had its
\* first SUBSCRIBED and issued no reload
C13_Witness ==
    \E c \in Clients, d \in Clients :
        /\ c # d
        /\ \E k \in calls : k.fn = "reload" /\ k.c = c
        /\ everSubscribed[c] /\ flapsLeft[c] < MaxFlaps
        /\ chanState[d] = "joined" /\ flapsLeft[d] = MaxFlaps
        /\ \A k \in calls : k.c = d => k.fn # "reload"

\* the channels the client's session has removed
Removed(c) == Range(removedChannels[c])

\* C14: when the effect re-runs while the cleanup timer is still pending, the
\* timer is cancelled, no channel is removed, none is opened and the channel
\* held before stays the one in use; while the effect is active no teardown
\* is pending, and a channel is only ever removed while the effect is
\* released
C14_TeardownCancelled ==
    /\ [][\A c \in Clients :
            (EffectRun(c) /\ cleanupTimerRef[c] \in timers[c]) =>
                /\ timers'[c] = {}
                /\ channelRef[c] # 0
                /\ channelRef'[c] = channelRef[c]
                /\ removedChannels'[c] = removedChannels[c]
                /\ lifecycle'[c].opened = lifecycle[c].opened
                /\ chanState'[c] = chanState[c]]_vars
    /\ [][\A c \in Clients :
            removedChannels'[c] # removedChannels[c] =>
                ~lifecycle[c].active /\ ~lifecycle'[c].active]_vars
    /\ [](\A c \in Clients :
            /\ lifecycle[c].active => timers[c] = {}
            /\ timers[c] \subseteq {cleanupTimerRef[c]})

\* a client released and re-acquired before the timer fired: its first
\* channel is still held and was never removed
C14_Witness ==
    \E c \in Clients :
        /\ lifecycle[c].active
        /\ lifecycle[c].timersSet = 1
        /\ lifecycle[c].runsLeft = MaxRuns - 1
        /\ lifecycle[c].opened = 1
        /\ channelRef[c] = 1
        /\ removedChannels[c] = <<>>
        /\ timers[c] = {}
        /\ chanState[c] = "joined"

\* C15: the cleanup removes nothing by itself; a channel is removed only by
\* the timer firing while the effect is released, each channel at most once,
\* after which no channel is held; the next effect run then opens a channel
\* that was never used before
C15_DeferredRelease ==
    /\ [][\A c \in Clients :
            Cleanup(c) =>
                /\ removedChannels'[c] = removedChannels[c]
                /\ channelRef'[c] = channelRef[c]
                /\ chanState'[c] = chanState[c]
                /\ cleanupTimerRef'[c] \in timers'[c]]_vars
    /\ [][\A c \in Clients :
            removedChannels'[c] # removedChannels[c] =>
                /\ \E t \in timers[c] : TimerFires(c, t)
                /\ ~lifecycle[c].active
                /\ channelRef[c] # 0
                /\ removedChannels'[c] =
                       Append(removedChannels[c], channelRef[c])
                /\ channelRef'[c] = 0]_vars
    /\ [][\A c \in Clients :
            (EffectRun(c) /\ channelRef[c] = 0) =>
                /\ channelRef'[c] # 0
                /\ channelRef'[c] \notin Removed(c)
                /\ lifecycle'[c].opened = lifecycle[c].opened + 1
                /\ chanState'[c] = "joining"]_vars
    /\ [](\A c \in Clients :
            /\ Cardinality(Removed(c)) = Len(removedChannels[c])
            /\ channelRef[c] \notin Removed(c)
            /\ (channelRef[c] = 0) <=>
                   (Len(removedChannels[c]) = lifecycle[c].opened))

\* a client whose first channel was removed by the timer and whose next
\* effect run opened a second one
C15_Witness ==
    \E c \in Clients :
        /\ removedChannels[c] = <<1>>
        /\ channelRef[c] = 2
        /\ lifecycle[c].active
        /\ chanState[c] = "joined"

\* the entry of the list with the given id
Row(list, id) == Find(list, id)[1]

\* the position an object has after moving by the offset the dragged object
\* of the last gesture went through since its first move
Dragged(o) ==
    [x |-> o.x + (gesture.x - Row(gesture.list, gesture.id).x),
     y |-> o.y + (gesture.y - Row(gesture.list, gesture.id).y)]

\* the calls started by the step
Issued == calls' \ calls

\* the step issues a position update that moves the object along
Moved(o) ==
    \E k \in Issued :
        k.fn = "updateObject" /\ k.id = o.id /\ k.updates = Dragged(o)

\* the step issues nothing for the object
Untouched(o) == \A k \in Issued : k.id # o.id

\* the centre of the object lies within the bounds of the frame
CentreInside(o, f) ==
    /\ f.x <= o.x + (o.width \div 2)
    /\ o.x + (o.width \div 2) <= f.x + f.width
    /\ f.y <= o.y + (o.height \div 2)
    /\ o.y + (o.height \div 2) <= f.y + f.height

\* every optimistic merge of the dragger's updates has been applied
Merged ==
    \A k \in calls :
        ~(k.c = Dragger /\ k.fn = "updateObject" /\ k.stage = "getUser")

\* C16: after a gesture on a member of a selection of two or more objects
\* has ended and its updates have been merged, every selected object still
\* in the list is at its position of the gesture's first move plus the
\* offset of the dragged object
C16_RelativeOffsets ==
    (/\ gesture.phase = "ended"
     /\ gesture.id \in gesture.sel
     /\ Cardinality(gesture.sel \cap Ids(gesture.list)) >= 2
     /\ Merged)
    => \A p \in (gesture.sel \cap Ids(gesture.list))
                   \cap Ids(objects[Dragger]) :
          /\ Row(objects[Dragger], p).x = Dragged(Row(gesture.list, p)).x
          /\ Row(objects[Dragger], p).y = Dragged(Row(gesture.list, p)).y

\* C17 as claimed: with B's centre inside A and C's centre inside B, the end
\* of a drag of A moves B and C along while B is locked, and moves B but
\* issues nothing for C while B is unlocked
C17_AsClaimed ==
    [][(/\ DragEnd
        /\ gesture.id = 1
        /\ CentreInside(Row(gesture.list, 2), Row(gesture.list, 1))
        /\ CentreInside(Row(gesture.list, 3), Row(gesture.list, 2)))
       => /\ Moved(Row(gesture.list, 2))
          /\ IF Row(gesture.list, 2).properties.locked
             THEN Moved(Row(gesture.list, 3))
             ELSE Untouched(Row(gesture.list, 3))]_vars

\* C17, amended: with A locked, B's centre inside A and C's centre inside
\* B, the end of a drag of A moves A and B along; it moves C along while B
\* is locked or C's centre lies inside A, and issues nothing for C while B is
\* unlocked and C's centre lies outside A
C17_LockedContainment ==
    [][(/\ DragEnd
        /\ gesture.id = 1
        /\ Row(gesture.list, 1).properties.locked
        /\ CentreInside(Row(gesture.list, 2), Row(gesture.list, 1))
        /\ CentreInside(Row(gesture.list, 3), Row(gesture.list, 2)))
       => /\ Moved(Row(gesture.list, 1))
          /\ Moved(Row(gesture.list, 2))
          /\ Row(gesture.list, 2).properties.locked
                => Moved(Row(gesture.list, 3))
          /\ CentreInside(Row(gesture.list, 3), Row(gesture.list, 1))
                => Moved(Row(gesture.list, 3))
          /\ (/\ ~Row(gesture.list, 2).properties.locked
              /\ ~CentreInside(Row(gesture.list, 3), Row(gesture.list, 1)))
                => Untouched(Row(gesture.list, 3))]_vars

\* the second drag of locked A has ended after B was unlocked, with C's
\* centre inside B and outside A: updates are on their way for A and B only
C17_Witness ==
    /\ gesture.phase = "ended"
    /\ gesture.id = 1
    /\ gesturesLeft = 0
    /\ Row(gesture.list, 1).properties.locked
    /\ ~Row(gesture.list, 2).properties.locked
    /\ CentreInside(Row(gesture.list, 2), Row(gesture.list, 1))
    /\ CentreInside(Row(gesture.list, 3), Row(gesture.list, 2))
    /\ ~CentreInside(Row(gesture.list, 3), Row(gesture.list, 1))
    /\ {k.id : k \in {q \in calls : q.stage = "getUser"}} = {1, 2}
    /\ Row(objects[Dragger], 3) = Row(gesture.list, 3)

C19_VisualOnlyMoves ==
    [][\A id \in DragIds, delta \in DragDeltas :
          DragMove(id, delta) =>
              /\ objects' = objects
              /\ db' = db
              /\ dbVersion' = dbVersion
              /\ calls' = calls
              /\ \A m \in net' \ net :
                    /\ m.event = "object-move"
                    /\ m.payload = [id |-> id, x |-> gesture'.x,
                                    y |-> gesture'.y]]_vars

\* two moves into a gesture with three participants: the only event on its
\* way is the object-move of the dragged object, the lists are as they were
C19_Witness ==
    /\ gesture.phase = "dragging"
    /\ gesture.moves = MaxMoves
    /\ multiDragRef.active
    /\ Len(multiDragRef.startPositions) = 3
    /\ objects[Dragger] = gesture.list
    /\ calls = {}
    /\ \E m \in net : m.event = "object-move" /\ m.payload.id = gesture.id
    /\ \A m \in net : m.event = "object-move" /\ m.payload.id = gesture.id

\* C20: whenever no gesture is in progress, whether the last one ended or
\* was lost with its dragged object, no session is held
C20_SessionLifetime == gesture.phase # "dragging" => multiDragRef = NoSession

\* C21: Broadcast throttle.  A cursor or object-move event is sent only by a
\* call made at least 50 ms after the caller's previous accepted call of the
\* same kind (which the call then replaces as the accepted one); a call
\* inside the window therefore sends nothing, and since events enter the
\* channels only in the step of a call, a dropped call is never sent later.
C21_BroadcastThrottle ==
    [][/\ \A m \in cursorNet' \ cursorNet :
             /\ now - lastBroadcast[m.payload.userId] >= CURSOR_THROTTLE_MS
             /\ lastBroadcast'[m.payload.userId] = now
       /\ \A c \in Clients :
             lastBroadcast'[c] # lastBroadcast[c] =>
                 /\ now - lastBroadcast[c] >= CURSOR_THROTTLE_MS
                 /\ lastBroadcast'[c] = now
       /\ \A m \in net' \ net :
             m.event = "object-move" =>
                 \E c \in Clients \ {m.to} :
                     /\ now - lastDragBroadcast[c] >= DRAG_THROTTLE_MS
                     /\ lastDragBroadcast'[c] = now
       /\ \A c \in Clients :
             lastDragBroadcast'[c] # lastDragBroadcast[c] =>
                 /\ now - lastDragBroadcast[c] >= DRAG_THROTTLE_MS
                 /\ lastDragBroadcast'[c] = now
       /\ (cursorNet' \ cursorNet # {} \/ net' \ net # {}) =>
             opsLeft' = opsLeft - 1
       /\ (opsLeft' = opsLeft - 1
             /\ \A c \in Clients : Throttled(c) /\ CursorThrottled(c)) =>
             /\ net' = net
             /\ cursorNet' = cursorNet]_vars

\* a cursor call was accepted and sent, the next call came inside the window
\* and was dropped, and the window has passed since with nothing sent
C21_Witness ==
    /\ opsLeft = 0
    /\ \E c \in Clients :
          /\ lastBroadcast[c] > 0
          /\ now - lastBroadcast[c] >= CURSOR_THROTTLE_MS
          /\ \A d \in Clients \ {c} : lastBroadcast[d] = 0
          /\ Cardinality(cursorNet) = 1
    /\ \A c \in Clients : lastDragBroadcast[c] = 0

\* the table, the count of its writes and the calls in flight are as before
NothingWritten == db' = db /\ dbVersion' = dbVersion /\ calls' = calls

\* C22: Ephemeral events are never durable.  A call of broadcastCursor or
\* broadcastObjectMove and the receipt of a cursor or object-move event write
\* nothing to the table and start no call to it; a received object-move
\* changes nothing but x and y of objects in the receiver's list; a reload
\* that returns data replaces the list by the stored rows, so a client that
\* has reconciled holds the table's positions.
C22_EphemeralNeverDurable ==
    /\ [][/\ opsLeft' = opsLeft - 1 => NothingWritten
          /\ \A m \in cursorNet : ReceiveCursor(m) => NothingWritten
          /\ \A m \in net :
                (m.event = "object-move" /\ Receive(m)) =>
                    /\ NothingWritten
                    /\ \A c \in Clients \ {m.to} : objects'[c] = objects[c]
                    /\ Len(objects'[m.to]) = Len(objects[m.to])
                    /\ \A i \in DOMAIN objects[m.to] :
                          [objects'[m.to][i] EXCEPT
                              !.x = objects[m.to][i].x,
                              !.y = objects[m.to][i].y] = objects[m.to][i]
          /\ \A k \in calls :
                (ReloadDone(k) /\ k.data.present) =>
                    objects'[k.c] = k.data.rows]_vars
    /\ [](\A c \in Clients : Reconciled(c) => MatchesDb(c))

\* a client holds a position it received in an object-move, which the table
\* does not hold, while the answer to its reload is about to be applied
C22_Witness ==
    \E c \in Clients, k \in calls :
        /\ k.fn = "reload" /\ k.c = c /\ k.stage = "done" /\ k.data.present
        /\ Range(objects[c]) # db
        /\ \E i \in DOMAIN objects[c] : objects[c][i].x = 1
        /\ \A d \in Clients \ {c} : lastDragBroadcast[d] > 0

\* the object list after the results have been performed one by one through
\* createObject (its append of the row created), updateObject and
\* deleteObject
RECURSIVE UserObjects(_, _)
UserObjects(prev, results) ==
    IF results = <<>> THEN prev
    ELSE LET r == Head(results)
             next == CASE r.action = "create" -> AppendCreated(prev, r.object)
                       [] r.action = "update" ->
                            MapMerge(prev, r.object.id, RestOf(r.object))
                       [] r.action = "delete" -> FilterOut(prev, r.object.id)
         IN  UserObjects(next, Tail(results))

\* the events createObject, updateObject and deleteObject broadcast for the
\* results
RECURSIVE UserSends(_, _, _)
UserSends(msgs, c, results) ==
    IF results = <<>> THEN msgs
    ELSE LET r == Head(results)
             next == CASE r.action = "create" ->
                            Send(msgs, c, "object-create", r.object)
                       [] r.action = "update" ->
                            Send(msgs, c, "object-update",
                                 UpdatePayload(r.object.id, RestOf(r.object)))
                       [] r.action = "delete" ->
                            Send(msgs, c, "object-delete", [id |-> r.object.id])
         IN  UserSends(next, c, Tail(results))

\* C23: Uniform agent path.  applyAiResults leaves the caller's object list
\* as performing the same creates, updates and deletes through createObject,
\* updateObject and deleteObject would, and broadcasts the same events with
\* the same payloads.
C23_UniformAgentPath ==
    [][\A k \in calls :
          ApplyAiResults(k) =>
              /\ objects'[k.c] = UserObjects(objects[k.c], k.results)
              /\ net' = UserSends(net, k.c, k.results)]_vars

\* the client's initial load resumes in this step with the answer k
LoadResumes(c, k) ==
    /\ k.fn = "loadObjects" /\ k.c = c /\ k.stage = "done"
    /\ LoadObjectsDone(k)

\* a session that has left loading stays out of it
NeverReloading ==
    [][\A c \in Clients : ~loading[c] => ~loading'[c]]_vars

\* C24 as stated: a session leaves loading only in a step in which the
\* table's answer to its initial load carries the object list, the list then
\* being that answer; it never re-enters loading.
C24_AsClaimed ==
    /\ [][\A c \in Clients :
              (loading[c] /\ ~loading'[c]) =>
                  \E k \in calls :
                      /\ LoadResumes(c, k)
                      /\ k.data.present
                      /\ objects'[c] = k.data.rows]_vars
    /\ NeverReloading

\* C24: Loading state.  A session leaves loading exactly in the step in which
\* its initial load query resumes, answered or failed: when the query
\* returned the object list the list then equals that result, when it failed
\* the list is left as it was; the session never re-enters loading.
C24_LoadingState ==
    /\ [][\A c \in Clients :
              /\ (loading[c] /\ ~loading'[c]) =>
                    \E k \in calls : LoadResumes(c, k)
              /\ \A k \in calls :
                    LoadResumes(c, k) =>
                        /\ ~loading'[c]
                        /\ k.data.present => objects'[c] = k.data.rows
                        /\ ~k.data.present => objects'[c] = objects[c]]_vars
    /\ NeverReloading

\* a session has left loading with an empty list although the table has held
\* the seed row all along and no operation was started: its load failed
C24_Witness ==
    \E c \in Clients :
        /\ ~loading[c]
        /\ objects[c] = <<>>
        /\ db = {SeedRow}
        /\ dbVersion = 0
        /\ opsLeft = MaxOps

\* the write of the updateObject or deleteObject call k fails in this step
WriteFails(k) ==
    /\ \/ k.fn = "updateObject" /\ k.stage = "updateSent" /\ UpdateExec(k)
       \/ k.fn = "deleteObject" /\ k.stage = "deleteSent" /\ DeleteExec(k)
    /\ faultsLeft' < faultsLeft

\* C25: Persistence failure on update/delete.  When the write of an
\* updateObject or deleteObject fails, the table is unchanged, every client's
\* list stays as it is (no rollback), no event is sent and the call ends
\* without starting another (no retry); a client that has applied a reload
\* which read the table after its last write holds exactly the stored rows.
C25_WriteFailure ==
    /\ [][\A k \in calls :
              WriteFails(k) =>
                  /\ objects' = objects
                  /\ net' = net
                  /\ db' = db
                  /\ calls' = calls \ {k}]_vars
    /\ [](\A c \in Clients : Reconciled(c) => MatchesDb(c))

\* client c still holds the x of its update, whose write has failed (the
\* table was never written); the peer, whose channel was down, holds the
\* stored row; the answer to c's reload is about to be applied
C25_Witness ==
    \E c \in Clients, k \in calls :
        /\ k.fn = "reload" /\ k.c = c /\ k.stage = "done" /\ k.data.present
        /\ \A q \in calls : q.fn = "reload"
        /\ db = {SeedRow} /\ dbVersion = 0 /\ faultsLeft = 0
        /\ Len(objects[c]) = 1 /\ objects[c][1].x = 1 /\ objects[c][1].y = 0
        /\ \A d \in Clients \ {c} :
              chanState[d] = "errored" /\ objects[d] = <<SeedRow>>

C27_MalformedDropped ==
    [][\A c \in Clients, event \in Events, payload \in MalformedPayloads :
          ReceiveMalformed(c, event, payload) =>
              objects'[c] = objects[c]]_vars

\* C28: Connectivity status.  The reconnecting banner is visible exactly
\* while the browser is offline or the board channel or the presence channel
\* is not SUBSCRIBED: it shows in each of these cases and is hidden when the
\* browser is online and both channels are SUBSCRIBED.
C28_ConnectivityStatus ==
    \A c \in Clients :
        BannerVisible(c) <=>
            \/ offline[c]
            \/ chanState[c] # "joined"
            \/ presenceState[c] # "joined"

\* createObject calls whose insert the table has not executed yet
PendingCreates ==
    {k \in calls : k.fn = "createObject" /\ k.stage \in {"getUser", "insertSent"}}

\* C29: Exactly-once persistence of creates.  On a board that started empty,
\* with every caller authenticated and every insert executed, the table holds
\* one row per createObject call whose insert has been executed, no two rows
\* with one id, whatever the interleaving of the calls of one client or of
\* both; so after N calls have completed it holds exactly N rows, and a load
\* answered after that returns all N.
C29_ExactlyOnceCreates ==
    /\ Cardinality(db) = (CreateOps - opsLeft) - Cardinality(PendingCreates)
    /\ \A r, q \in db : r.id = q.id => r = q
    /\ \A k \in calls :
          (/\ k.fn = "loadObjects" /\ k.stage = "done"
           /\ k.ver = CreateOps) =>
              /\ k.data.present
              /\ Len(k.data.rows) = CreateOps
              /\ Range(k.data.rows) = db

\* three creates, two of them by one client, have all been persisted while
\* the other client's initial load was unanswered; its answer, read
\* afterwards, is about to be applied
C29_Witness ==
    /\ opsLeft = 0 /\ PendingCreates = {}
    /\ Cardinality({r \in db : r.created_by = "a"}) = 2
    /\ Cardinality({r \in db : r.created_by = "b"}) = 1
    /\ \E k \in calls :
          k.fn = "loadObjects" /\ k.stage = "done" /\ k.ver = CreateOps

\* the receiver of m holds, after the step, exactly one object with the
\* payload's id
HoldsOnce(m) == CountId(objects'[m.to], m.payload.id) = 1

\* the receiver's object with the payload's id is the payload
HoldsPayload(m) ==
    \A i \in DOMAIN objects'[m.to] :
        objects'[m.to][i].id = m.payload.id => objects'[m.to][i] = m.payload

\* createObject call k resumes in this step after a successful insert and
\* broadcasts the created row
Broadcasts(k) ==
    /\ k.fn = "createObject" /\ k.stage = "insertDone"
    /\ k.data.present /\ ~k.error
    /\ CreateDone(k)

\* C30 as stated: from the moment a create is broadcast, a subscribed peer to
\* which it is delivered comes to hold exactly one object with the created
\* id, with the field values broadcast.  A peer that holds the id keeps its
\* object when the event arrives, so this requires that a peer without the
\* id holds the payload once the event is delivered, and that a subscribed
\* peer which holds the id when the create is broadcast holds it with the
\* broadcast values.
C30_AsClaimed ==
    [][/\ \A m \in net :
             (/\ m.event = "object-create" /\ Deliver(m)
              /\ m.payload.id \notin Ids(objects[m.to])) =>
                 HoldsOnce(m) /\ HoldsPayload(m)
       /\ \A k \in calls :
             Broadcasts(k) =>
                 \A d \in Clients \ {k.c} :
                     chanState[d] = "joined" =>
                         \A i \in DOMAIN objects[d] :
                             objects[d][i].id = k.data.rows[1].id =>
                                 objects[d][i] = k.data.rows[1]]_vars

\* C30: Peer visibility of creates.  When an object-create is delivered to a
\* subscribed peer, the peer's list then holds exactly one object with the
\* created id: the broadcast object with all its field values when the peer
\* did not hold the id, and otherwise the object it held, its list being
\* left as it was.
C30_PeerVisibility ==
    [][\A m \in net :
          (m.event = "object-create" /\ Deliver(m)) =>
              /\ HoldsOnce(m)
              /\ m.payload.id \notin Ids(objects[m.to]) => HoldsPayload(m)
              /\ m.payload.id \in Ids(objects[m.to]) =>
                    objects'[m.to] = objects[m.to]]_vars

\* a peer that had reloaded the created row and moved it has now handled the
\* row's object-create and still holds its own x
C30_Witness ==
    /\ last.event = "object-create"
    /\ last.known
    /\ \E i \in DOMAIN objects[last.c] :
          /\ objects[last.c][i].id = nextId - 1
          /\ objects[last.c][i].created_by # last.c
          /\ objects[last.c][i].x = 1

\* the ids of the objects whose centre lies inside the dragged frame or
\* inside a locked frame already among the ids, connectors and objects
\* snapshotted before the walk left out
ReachStep(allObjects, frameId, seedIds, ids) ==
    ids \cup
    {allObjects[i].id : i \in
        {j \in DOMAIN allObjects :
            /\ allObjects[j].type # "connector"
            /\ allObjects[j].id \notin seedIds
            /\ \E k \in DOMAIN allObjects :
                  /\ \/ allObjects[k].id = frameId
                     \/ /\ allObjects[k].id \in ids
                        /\ LockedFrame(allObjects[k])
                  /\ allObjects[k].id # allObjects[j].id
                  /\ IsInsideFrame(allObjects[j], allObjects[k])}}

RECURSIVE Reachable(_, _, _, _)
Reachable(allObjects, frameId, seedIds, ids) ==
    LET more == ReachStep(allObjects, frameId, seedIds, ids)
    IN  IF more = ids THEN ids
        ELSE Reachable(allObjects, frameId, seedIds, more)

\* C31: collectLockedFrameContents terminates for every set of objects,
\* mutually containing locked frames included: a run over n objects takes at
\* most n * (n + 1) loop iterations and returns. It passes every id to
\* collected.set at most once and never an id snapshotted before, so no
\* snapshot is overwritten; it never collects a connector or the dragged
\* frame; and when it returns it has collected exactly the objects reachable
\* from the dragged locked frame through objects whose centre lies inside an
\* already-collected locked frame, which is also what the recursive
\* definition of the function yields.
C31_SeenSetCollection ==
    LET all == objects[Dragger]
        n == Len(all)
        w == walk
    IN  w.phase # "idle" =>
          /\ w.steps <= n * (n + 1)
          /\ Len(w.stack) <= n
          /\ \A i, j \in DOMAIN w.written :
                w.written[i] = w.written[j] => i = j
          /\ \A i \in DOMAIN w.written :
                /\ w.written[i] \notin Ids(w.seed)
                /\ w.written[i] # w.frame
                /\ Find(all, w.written[i])[1].type # "connector"
          /\ SubSeq(w.collected, 1, Len(w.seed)) = w.seed
          /\ \A i \in DOMAIN w.collected :
                /\ w.collected[i].x = Find(all, w.collected[i].id)[1].x
                /\ w.collected[i].y = Find(all, w.collected[i].id)[1].y
          /\ w.phase = "done" =>
                /\ Range(w.written) =
                       Reachable(all, w.frame, Ids(w.seed), {})
                /\ Ids(w.collected) = Ids(w.seed) \cup Range(w.written)
                /\ w.collected =
                       CollectLockedFrameContents(Find(all, w.frame)[1], all,
                                                  1, w.seed)

\* a run from frame 1 has returned after expanding frame 2, which lies
\* around the centre of frame 1, and frame 6 inside it: the note inside
\* frame 6 is collected, the connector and the outside note are not
C31_Witness ==
    /\ walk.phase = "done"
    /\ walk.frame = 1
    /\ IsInsideFrame(Find(objects[Dragger], 1)[1], Find(objects[Dragger], 2)[1])
    /\ IsInsideFrame(Find(objects[Dragger], 2)[1], Find(objects[Dragger], 1)[1])
    /\ Range(walk.written) = {2, 4, 6}
    /\ walk.seed = <<[id |-> 1, x |-> 0, y |-> 0]>>

\* the dragged object is part of a multi-selection
InMultiSelection(id, sel) == id \in sel /\ Cardinality(sel) > 1

\* the participants of the gesture on id, given the session held after its
\* first move
ParticipantsOf(session, id) ==
    IF session.active /\ session.draggedId = id
    THEN Ids(session.startPositions) ELSE {id}

\* C32: at the first move of a gesture the selected objects become
\* participants if and only if the dragged object is selected and the
\* selection has more than one member: then every selected object of the
\* list is a participant, otherwise the participants are among those the
\* dragged object brings without any selection; dragging an unselected object that
\* is not a locked frame while others are selected creates no session, and
\* its drag end updates the dragged object only.
C32_ParticipantsFromSelection ==
    [][/\ \A id \in DragIds, delta \in DragDeltas :
             (DragMove(id, delta) /\ gesture.phase # "dragging") =>
                LET all == objects[Dragger]
                    parts == ParticipantsOf(multiDragRef', id)
                IN  /\ InMultiSelection(id, selectedIds) =>
                          (selectedIds \cap Ids(all)) \subseteq parts
                    /\ ~InMultiSelection(id, selectedIds) =>
                          parts \subseteq
                              Ids(StartPositions(id, {}, all)) \cup {id}
                    /\ (/\ ~InMultiSelection(id, selectedIds)
                        /\ ~LockedFrame(Find(all, id)[1])) =>
                          /\ multiDragRef' = multiDragRef
                          /\ parts = {id}
       /\ (/\ DragEnd
           /\ ~InMultiSelection(gesture.id, gesture.sel)
           /\ ~LockedFrame(Find(gesture.list, gesture.id)[1])) =>
             {k.id : k \in Issued} = {gesture.id}]_vars

\* the ids of the rows of the table
RowIds(rows) == {r.id : r \in rows}

\* the step belongs to an update: getUser resolves, the table executes the
\* statement, or a peer handles the object-update
UpdateStep ==
    \/ \E k \in calls : UpdateGotUser(k, k.c) \/ UpdateExec(k)
    \/ \E m \in net : m.event = "object-update" /\ Deliver(m)

\* C33: no step of an update, the gesture-end updates of a drag session
\* included, adds an id to a client's object list or to the table: an object
\* deleted during the gesture stays absent wherever it was removed.
C33_DeletedParticipant ==
    [][UpdateStep =>
          /\ \A c \in Clients : Ids(objects'[c]) \subseteq Ids(objects[c])
          /\ RowIds(db') \subseteq RowIds(db)]_vars

\* the drag of locked frame 1 with the note among its participants has
\* ended after the peer deleted the note: the note is in no list and not in
\* the table, and its gesture-end update has been merged and broadcast and
\* awaits the table
C33_Witness ==
    /\ gesture.phase = "ended"
    /\ gesture.id = 1
    /\ 3 \in Ids(StartPositions(1, gesture.sel, gesture.list))
    /\ multiDragRef = NoSession
    /\ \A c \in Clients : 3 \notin Ids(objects[c])
    /\ 3 \notin RowIds(db)
    /\ \E k \in calls :
          /\ k.fn = "updateObject"
          /\ k.c = Dragger
          /\ k.id = 3
          /\ k.stage = "updateSent"

\* C34: a mounted session holds the channels opened for the board it is
\* rendered for, board-objects-b and board-presence-b, and a render with a
\* different boardId does not keep the channel of the previous board in
\* channelRef.
C34_ChannelMatchesBoard ==
    /\ [](\A c \in Clients :
             /\ (lifecycle[c].active /\ channelRef[c] # 0) =>
                   channelBoard[c].objects = boardId[c]
             /\ (presenceLife[c] = "active" /\ presenceRef[c] # 0) =>
                   channelBoard[c].presence = boardId[c])
    /\ [][\A c \in Clients, b \in BoardIds :
             BoardIdChanged(c, b) => channelRef'[c] # channelRef[c]]_vars

\* C35: while the channel effect of a session is active the session holds a
\* channel that was never removed, and no step taken while it is active, a
\* timer firing included, removes or replaces that channel; the same holds
\* for the presence channel of usePresence.
C35_NoTeardownInUse ==
    /\ [](\A c \in Clients :
             /\ lifecycle[c].active =>
                   /\ channelRef[c] # 0
                   /\ channelRef[c] \notin Removed(c)
                   /\ chanState[c] # "closed"
             /\ presenceLife[c] = "active" =>
                   /\ presenceRef[c] # 0
                   /\ presenceState[c] # "closed")
    /\ [][\A c \in Clients :
             /\ lifecycle[c].active =>
                   /\ removedChannels'[c] = removedChannels[c]
                   /\ channelRef'[c] = channelRef[c]
             /\ presenceLife[c] = "active" =>
                   presenceRef'[c] = presenceRef[c]]_vars

\* one client released and re-acquired twice, each time before the timer
\* fired, and still holds its first channel; the other client's timer fired
\* and removed its channel after a release
C35_Witness ==
    \E c \in Clients, d \in Clients :
        /\ lifecycle[c].active
        /\ lifecycle[c].timersSet = 2
        /\ lifecycle[c].runsLeft = 0
        /\ channelRef[c] = 1
        /\ removedChannels[c] = <<>>
        /\ timers[c] = {}
        /\ presenceLife[c] = "active"
        /\ removedChannels[d] = <<1>>

\* the step applies the response of a read of client c
AppliesRead(c) ==
    \E k \in Reads(calls, c) : LoadObjectsDone(k) \/ ReloadDone(k)

\* C36: when a client applies the response of its initial load or of a
\* reload, no event it has applied since that read was issued is undone: an
\* id whose object-delete it applied stays out of its list, and an object
\* it took in through an object-create or a completed createObject stays in
\* its list while the table holds its row.
C36_LoadKeepsNewerEvents ==
    [][\A c \in Clients :
          AppliesRead(c) =>
             \A e \in appliedSince[c] :
                /\ (/\ e.event = "object-delete"
                    /\ e.id \notin Ids(objects[c])) =>
                       e.id \notin Ids(objects'[c])
                /\ (/\ e.event = "object-create"
                    /\ e.id \in Ids(objects[c])
                    /\ e.id \in RowIds(db)) =>
                       e.id \in Ids(objects'[c])]_vars

\* no object-delete the client has applied is for an id its list holds
DeletedStayOut ==
    \A c \in Clients : \A e \in appliedSince[c] :
        e.event = "object-delete" => e.id \notin Ids(objects[c])

\* nothing is in flight: no call, no broadcast
Quiet == calls = {} /\ net = {}

\* every list has the ids of the table
ListsMatchTable == \A c \in Clients : Ids(objects[c]) = RowIds(db)

\* C37: with every broadcast delivered exactly once, a client that has
\* applied the object-delete for an id does not hold an object with that id
\* afterwards, and once every call has finished and every broadcast has
\* been delivered, each client's list has exactly the ids of the table.
C37_NoResurrection ==
    /\ DeletedStayOut
    /\ Quiet => ListsMatchTable

\* the entry the map holds for a user: a set with at most one cursor
EntryOf(map, u) == {p \in map : p.userId = u}

\* the userIds a leave event names
Departing(leftPresences) ==
    {leftPresences[i].userId : i \in DOMAIN leftPresences}

\* the step handles a cursor event that carries the userId u at client c
CursorStepOf(c, u) ==
    \/ \E payload \in CursorPayloads \ {NoPayload} :
          payload.userId = u /\ CursorEvent(c, payload)
    \/ \E m \in cursorNet :
          m.to = c /\ m.payload.userId = u /\ ReceiveCursor(m)

C38_NoMissedEvents ==
    <>[](RowIds(db) \subseteq Ids(objects[Dragger]))

\* the four conditions as the claim states them, for the whole request
MayStopEarly(r) ==
    ~r.complex /\ ~r.failed /\ r.allResults > 0 /\ ~r.askedState

\* C40: the loop stops early, returning the summary, only when the command
\* is not complex, every tool call executed for the request succeeded, at
\* least one create, update or delete result was collected and
\* get_board_state was not called; in every other case the results of an
\* iteration are sent back to the model; and there are at most 10
\* iterations.
C40_EarlyReturn ==
    /\ [](/\ ai.earlyReturn => MayStopEarly(ai)
          /\ ai.iterations <= MAX_ITERATIONS)
    /\ [][(ai.phase = "tools" /\ ai'.phase # "tools" /\ ~MayStopEarly(ai')) =>
             (ai'.phase = "model" /\ ai'.modelCalls = ai.modelCalls + 1)]_vars

====
